---- MODULE Spec2Model ----
(***************************************************************************)
(* Verification model of the maintenance-schedule engine                   *)
(* (src/models: Rule, HistoryEntry, Vehicle, the due-calculation helpers). *)
(*                                                                         *)
(* Representation.                                                         *)
(*   Optional[x]  : <<>> is Python's None, <<x>> is the value x.           *)
(*   str          : a sequence of one-character strings, so that           *)
(*                  concatenation and startswith are computed.             *)
(*   ISO date str : <<year, month, day>>; Python compares the zero-padded  *)
(*                  "YYYY-MM-DD" strings field by field, left to right.    *)
(*   miles        : integers.                                              *)
(*   months       : integers counting quarters of a month (Quarters), all  *)
(*                  of them exact as binary floats.                        *)
(*   vehicle file : the YAML document it holds: a mapping (a function on   *)
(*                  key strings) whose values are tagged null, list or map.*)
(***************************************************************************)
EXTENDS Integers, Sequences, FiniteSets, TLC

VARIABLES vehicle, call, file

vars == <<vehicle, call, file>>

----------------------------------------------------------------------------
(* Python values *)

None == <<>>

Some(x) == <<x>>

\* bool(x) of an Optional[number]: None and 0 are falsy
Truthy(o) == o # None /\ o[1] # 0

\* a or b
PyOr(a, b) == IF Truthy(a) THEN a ELSE b

\* int(n / d): truncation toward zero
TruncDiv(n, d) == IF n >= 0 THEN n \div d ELSE -((-n) \div d)

\* s.startswith(p)
StartsWith(s, p) == Len(s) >= Len(p) /\ SubSeq(s, 1, Len(p)) = p

\* str.lower on the letters the keys and verbs of the model use
LowerCase(str) == [i \in 1..Len(str) |-> IF str[i] = "R" THEN "r" ELSE str[i]]

\* sub in s
Contains(s, sub) ==
    \E i \in 0..(Len(s) - Len(sub)) : SubSeq(s, i + 1, i + Len(sub)) = sub

\* tuple comparison a < b, lexicographic (sequences of integers)
RECURSIVE TupleLess(_, _)
TupleLess(a, b) ==
    IF a = <<>> THEN b # <<>>
    ELSE IF b = <<>> THEN FALSE
    ELSE IF Head(a) # Head(b) THEN Head(a) < Head(b)
    ELSE TupleLess(Tail(a), Tail(b))

\* index of max(seq, key=...): the first element no later one beats strictly
MaxIndex(keys) ==
    CHOOSE i \in 1..Len(keys) :
        /\ \A j \in 1..Len(keys) : ~TupleLess(keys[i], keys[j])
        /\ \A j \in 1..(i - 1) : TupleLess(keys[j], keys[i])

----------------------------------------------------------------------------
(* datetime.date and dateutil.relativedelta *)

Quarters == 4

DaysPerMonth == 30

IsLeap(y) == (y % 4 = 0 /\ y % 100 # 0) \/ y % 400 = 0

DaysInMonth(y, m) ==
    IF m = 2 THEN (IF IsLeap(y) THEN 29 ELSE 28)
    ELSE IF m \in {4, 6, 9, 11} THEN 30 ELSE 31

RECURSIVE DaysBeforeMonth(_, _)
DaysBeforeMonth(y, m) ==
    IF m = 1 THEN 0 ELSE DaysBeforeMonth(y, m - 1) + DaysInMonth(y, m - 1)

DaysBeforeYear(y) ==
    (y - 1) * 365 + (y - 1) \div 4 - (y - 1) \div 100 + (y - 1) \div 400

\* date.fromisoformat(s).toordinal()
ToOrdinal(d) == DaysBeforeYear(d[1]) + DaysBeforeMonth(d[1], d[2]) + d[3]

NextDay(d) ==
    IF d[3] < DaysInMonth(d[1], d[2]) THEN <<d[1], d[2], d[3] + 1>>
    ELSE IF d[2] < 12 THEN <<d[1], d[2] + 1, 1>>
    ELSE <<d[1] + 1, 1, 1>>

RECURSIVE AddDays(_, _)
AddDays(d, n) == IF n = 0 THEN d ELSE AddDays(NextDay(d), n - 1)

\* d + relativedelta(months=n): the day is clipped to the target month
AddMonths(d, n) ==
    LET total == d[1] * 12 + (d[2] - 1) + n
        y == total \div 12
        m == (total % 12) + 1
        last == DaysInMonth(y, m)
    IN  <<y, m, IF d[3] > last THEN last ELSE d[3]>>

\* d + relativedelta(months=months, days=days)
AddRelativeDelta(d, months, days) == AddDays(AddMonths(d, months), days)

----------------------------------------------------------------------------
(* models/status.py *)

OVERDUE == 1

DUE_SOON == 2

OK == 3

INACTIVE == 4

UNKNOWN == 5

----------------------------------------------------------------------------
(* models/rule.py *)

StopMilesDefault == 999999999

StopMonthsDefault == 9999

\* Rule.__init__; start_months and stop_months are whole months, aftermarket
\* is an Optional[bool]
Rule(item, verb, interval_miles, interval_months, severe_interval_miles, severe_interval_months, notes, phase, start_miles, stop_miles, start_months, stop_months, aftermarket) ==
    [item |-> item, verb |-> verb, phase |-> phase,
     interval_miles |-> interval_miles,
     interval_months |-> interval_months,
     severe_interval_miles |-> severe_interval_miles,
     severe_interval_months |-> severe_interval_months,
     notes |-> notes,
     start_miles |-> PyOr(start_miles, Some(0))[1],
     stop_miles |-> PyOr(stop_miles, Some(StopMilesDefault))[1],
     start_months |-> PyOr(start_months, Some(0))[1],
     stop_months |-> PyOr(stop_months, Some(StopMonthsDefault))[1],
     aftermarket |-> (aftermarket # None /\ aftermarket[1])]

Slash == <<"/">>

\* Rule.base_key
base_key(rule) == rule.item \o Slash \o rule.verb

\* Rule.key; a phase of None and a phase of "" are both falsy
key(rule) ==
    IF rule.phase # <<>> THEN base_key(rule) \o Slash \o rule.phase
    ELSE base_key(rule)

\* is_active_at with the stop mileage still inside the window
is_active_at_closed(rule, miles) ==
    rule.start_miles <= miles /\ miles <= rule.stop_miles

\* Rule.is_active_at
is_active_at(rule, miles) == rule.start_miles <= miles /\ miles < rule.stop_miles

----------------------------------------------------------------------------
(* models/history_entry.py *)

\* HistoryEntry.__init__
HistoryEntry(rule_key, date, mileage, performed_by, notes, cost) ==
    [rule_key |-> rule_key, date |-> date, mileage |-> mileage,
     performed_by |-> performed_by, notes |-> notes, cost |-> cost]

----------------------------------------------------------------------------
(* models/calculations.py *)

\* calc_due_miles counting from odometer 0 whatever the rule's start_miles
calc_due_miles_from_zero(last_miles, interval, start_miles) ==
    IF interval = None THEN None
    ELSE IF last_miles # None THEN Some(last_miles[1] + interval[1])
    ELSE Some(interval[1])

calc_due_miles(last_miles, interval, start_miles) ==
    IF interval = None THEN None
    ELSE IF last_miles # None THEN Some(last_miles[1] + interval[1])
    ELSE Some(start_miles + interval[1])

\* months = int(interval_months); days = int((interval_months - months) * 30)
calc_due_date(last_date, interval_months) ==
    IF interval_months = None \/ last_date = None THEN None
    ELSE LET months == TruncDiv(interval_months[1], Quarters)
             days == TruncDiv((interval_months[1] - months * Quarters) * DaysPerMonth,
                              Quarters)
         IN  AddRelativeDelta(last_date, months, days)

\* check_status that is overdue only exactly at the due point
check_status_at_due_only(current, due, soon_threshold) ==
    IF current = due THEN OVERDUE
    ELSE IF current >= due - soon_threshold THEN DUE_SOON
    ELSE OK

\* check_status that is not yet overdue exactly at the due point
check_status_strict(current, due, soon_threshold) ==
    IF current > due THEN OVERDUE
    ELSE IF current >= due - soon_threshold THEN DUE_SOON
    ELSE OK

check_status(current, due, soon_threshold) ==
    IF current >= due THEN OVERDUE
    ELSE IF current >= due - soon_threshold THEN DUE_SOON
    ELSE OK

----------------------------------------------------------------------------
(* models/service_due.py *)

ServiceDue(rule, status, last_service_miles, last_service_date, due_miles, due_date, severe_due_miles, severe_due_date, miles_remaining, time_remaining_days) ==
    [rule |-> rule, status |-> status,
     last_service_miles |-> last_service_miles,
     last_service_date |-> last_service_date,
     due_miles |-> due_miles, due_date |-> due_date,
     severe_due_miles |-> severe_due_miles,
     severe_due_date |-> severe_due_date,
     miles_remaining |-> miles_remaining,
     time_remaining_days |-> time_remaining_days]

\* is_due that reports overdue services only
is_due_overdue_only(svc) == svc.status = OVERDUE

\* ServiceDue.is_due
is_due(svc) == svc.status \in {OVERDUE, DUE_SOON}

----------------------------------------------------------------------------
(* models/vehicle.py *)

\* Vehicle.__init__; the car is reduced to the field the engine reads
Vehicle(purchase_miles, rules, history, state_as_of_date, state_current_miles) ==
    [purchase_miles |-> purchase_miles, rules |-> rules, history |-> history,
     state_as_of_date |-> state_as_of_date,
     state_current_miles |-> state_current_miles]

HasMileage(h) == h.mileage # None

RECURSIVE SeqMax(_)
SeqMax(s) ==
    IF Len(s) = 1 THEN s[1]
    ELSE LET m == SeqMax(Tail(s)) IN IF s[1] >= m THEN s[1] ELSE m

\* current_miles testing the override for truth, not for None
current_miles_truthy(v) ==
    IF Truthy(v.state_current_miles) THEN v.state_current_miles[1]
    ELSE LET miles_from_history == SelectSeq(v.history, HasMileage)
         IN  IF miles_from_history # <<>>
             THEN SeqMax([i \in 1..Len(miles_from_history) |->
                              miles_from_history[i].mileage[1]])
             ELSE v.purchase_miles

\* Vehicle.current_miles
current_miles(v) ==
    IF v.state_current_miles # None THEN v.state_current_miles[1]
    ELSE LET miles_from_history == SelectSeq(v.history, HasMileage)
         IN  IF miles_from_history # <<>>
             THEN SeqMax([i \in 1..Len(miles_from_history) |->
                              miles_from_history[i].mileage[1]])
             ELSE v.purchase_miles

\* as_of_date that reads the clock even when the state stores a date
as_of_date_clock(v, today) == today

\* Vehicle.as_of_date; today is the clock read by date.today()
as_of_date(v, today) ==
    IF v.state_as_of_date # None THEN v.state_as_of_date ELSE today

\* get_last_service_for_item without the preference for entries with mileage
get_last_service_latest_date(v, item, verb) ==
    LET bk == item \o Slash \o verb
        Matches(h) == StartsWith(h.rule_key, bk)
        matching == SelectSeq(v.history, Matches)
    IN  IF matching = <<>> THEN None
        ELSE Some(matching[MaxIndex([i \in 1..Len(matching) |-> matching[i].date])])

\* Vehicle.get_last_service_for_item
get_last_service_for_item(v, item, verb) ==
    LET bk == item \o Slash \o verb
        Matches(h) == StartsWith(h.rule_key, bk)
        matching == SelectSeq(v.history, Matches)
        with_mileage == SelectSeq(matching, HasMileage)
    IN  IF matching = <<>> THEN None
        ELSE IF with_mileage # <<>>
        THEN Some(with_mileage[MaxIndex([i \in 1..Len(with_mileage) |->
                 with_mileage[i].date \o with_mileage[i].mileage])])
        ELSE Some(matching[MaxIndex([i \in 1..Len(matching) |-> matching[i].date])])

\* ord(c) for the characters of the rule keys
CodePoint(c) ==
    CASE c = "/" -> 47 [] c = "a" -> 97 [] c = "c" -> 99 [] c = "e" -> 101
      [] c = "i" -> 105 [] c = "l" -> 108 [] c = "m" -> 109 [] c = "n" -> 110
      [] c = "o" -> 111 [] c = "p" -> 112 [] c = "r" -> 114 [] c = "s" -> 115
      [] c = "t" -> 116

\* a < b for two str
StrLess(a, b) ==
    TupleLess([i \in 1..Len(a) |-> CodePoint(a[i])],
              [i \in 1..Len(b) |-> CodePoint(b[i])])

\* key(a) < key(b) for the sort keys of get_history_sorted
SortKeyLess(a, b, sort_by) ==
    IF sort_by = "date" THEN TupleLess(a.date, b.date)
    ELSE IF sort_by = "miles"
    THEN PyOr(a.mileage, Some(0))[1] < PyOr(b.mileage, Some(0))[1]
    ELSE \/ StrLess(a.rule_key, b.rule_key)
         \/ a.rule_key = b.rule_key /\ TupleLess(a.date, b.date)

\* sorted(seq, key=..., reverse=reverse): a new list, stable in both directions
RECURSIVE Sorted(_, _, _)
Sorted(seq, sort_by, reverse) ==
    IF seq = <<>> THEN <<>>
    ELSE LET x == seq[Len(seq)]
             rest == Sorted(SubSeq(seq, 1, Len(seq) - 1), sort_by, reverse)
             StaysBefore(e) ==
                 IF reverse THEN ~SortKeyLess(e, x, sort_by)
                 ELSE ~SortKeyLess(x, e, sort_by)
             n == Cardinality({i \in 1..Len(rest) : StaysBefore(rest[i])})
         IN  SubSeq(rest, 1, n) \o <<x>> \o SubSeq(rest, n + 1, Len(rest))

\* get_history_sorted that ignores reverse
get_history_sorted_ascending(v, sort_by, reverse) ==
    IF sort_by \in {"date", "miles", "rule"} THEN Sorted(v.history, sort_by, FALSE)
    ELSE v.history

\* Vehicle.get_history_sorted
get_history_sorted(v, sort_by, reverse) ==
    IF sort_by \in {"date", "miles", "rule"} THEN Sorted(v.history, sort_by, reverse)
    ELSE v.history

\* the interval calculate_service_due selects for one axis
SelectInterval(severe, severe_interval, interval) ==
    IF severe THEN PyOr(severe_interval, interval) ELSE interval

\* CombineStatus where the date classification replaces the mileage one
\* without the comparison
CombineStatusDateWins(cur_miles, cur_date, due_miles, due_date, due_soon_miles, due_soon_months) ==
    IF due_miles = None /\ due_date = None THEN UNKNOWN
    ELSE IF due_date # None
    THEN check_status(ToOrdinal(cur_date), ToOrdinal(due_date),
                      TruncDiv(due_soon_months * DaysPerMonth, Quarters))
    ELSE check_status(cur_miles, due_miles[1], due_soon_miles)

\* CombineStatus that answers UNKNOWN as soon as one due point is missing
CombineStatusEitherMissing(cur_miles, cur_date, due_miles, due_date, due_soon_miles, due_soon_months) ==
    IF due_miles = None \/ due_date = None THEN UNKNOWN
    ELSE LET miles_status == check_status(cur_miles, due_miles[1], due_soon_miles)
             date_status ==
                 check_status(ToOrdinal(cur_date), ToOrdinal(due_date),
                              TruncDiv(due_soon_months * DaysPerMonth, Quarters))
         IN  IF date_status < miles_status THEN date_status ELSE miles_status

\* the status of calculate_service_due, from the two due points
CombineStatus(cur_miles, cur_date, due_miles, due_date, due_soon_miles, due_soon_months) ==
    IF due_miles = None /\ due_date = None THEN UNKNOWN
    ELSE LET miles_status ==
                 IF due_miles # None
                 THEN check_status(cur_miles, due_miles[1], due_soon_miles)
                 ELSE OK
             date_status ==
                 check_status(ToOrdinal(cur_date), ToOrdinal(due_date),
                              TruncDiv(due_soon_months * DaysPerMonth, Quarters))
         IN  IF due_date # None /\ date_status < miles_status
             THEN date_status ELSE miles_status

\* miles_remaining = (due_miles - current_miles) if due_miles else None
MilesRemaining(due_miles, cur_miles) ==
    IF Truthy(due_miles) THEN Some(due_miles[1] - cur_miles) ELSE None

\* Vehicle.calculate_service_due
calculate_service_due(v, rule, due_soon_miles, due_soon_months, severe, today) ==
    LET cur_miles == current_miles(v)
        cur_date == as_of_date(v, today)
        last_service == get_last_service_for_item(v, rule.item, rule.verb)
        last_miles == IF last_service # None THEN last_service[1].mileage ELSE None
        last_date == IF last_service # None THEN last_service[1].date ELSE None
        interval_miles ==
            SelectInterval(severe, rule.severe_interval_miles, rule.interval_miles)
        interval_months ==
            SelectInterval(severe, rule.severe_interval_months, rule.interval_months)
        due_miles == calc_due_miles(last_miles, interval_miles, rule.start_miles)
        due_date == calc_due_date(last_date, interval_months)
    IN  IF ~is_active_at(rule, cur_miles)
        THEN ServiceDue(rule, INACTIVE, None, None, None, None, None, None,
                        None, None)
        ELSE ServiceDue(rule,
                        CombineStatus(cur_miles, cur_date, due_miles, due_date,
                                      due_soon_miles, due_soon_months),
                        last_miles, last_date, due_miles, due_date, None, None,
                        MilesRemaining(due_miles, cur_miles), None)

\* get_all_service_status leaving out the rules that are not active
get_all_service_status_active_only(v, due_soon_miles, due_soon_months, severe, todays) ==
    LET all == [i \in 1..Len(v.rules) |->
                   calculate_service_due(v, v.rules[i], due_soon_miles,
                                         due_soon_months, severe, todays[i])]
        Active(svc) == svc.status # INACTIVE
    IN  SelectSeq(all, Active)

\* Vehicle.get_all_service_status; todays[i] is the clock as the i-th rule's
\* calculate_service_due reads it
get_all_service_status(v, due_soon_miles, due_soon_months, severe, todays) ==
    [i \in 1..Len(v.rules) |->
        calculate_service_due(v, v.rules[i], due_soon_miles, due_soon_months,
                              severe, todays[i])]

\* the parameters get_all_service_status declares
StatusParams == {"due_soon_miles", "due_soon_months", "severe"}

\* what Python raises for a keyword argument the function does not declare
TypeError == [raised |-> "TypeError"]

\* a call of get_all_service_status with the keyword arguments kw
CallWithKeywords(kw, result) == IF kw \subseteq StatusParams THEN result ELSE TypeError

----------------------------------------------------------------------------
(* models/loader.py; yaml.load and yaml.dump carry the document unchanged,  *)
(* so the file is modelled by the document it holds                          *)

YNull == [yaml |-> "null"]

YList(items) == [yaml |-> "list", items |-> items]

YMap(fields) == [yaml |-> "map", fields |-> fields]

\* a file on disk holding the document data
FileWith(data) == [exists |-> TRUE, data |-> data]

\* no file on disk
NoFile == [exists |-> FALSE]

\* dct.get(k) is not None
HasValue(dct, k) == k \in DOMAIN dct /\ dct[k] # YNull

\* dct[k] = v
Put(dct, k, v) == [x \in DOMAIN dct \cup {k} |-> IF x = k THEN v ELSE dct[x]]

\* dct.get(k) of an entry or rule mapping, as an Optional
Get(dct, k) == IF k \in DOMAIN dct THEN Some(dct[k]) ELSE None

\* the entry dict save_history_entry and update_history_entry build: None
\* values are left out
EntryDict(entry) ==
    LET keys == {"ruleKey", "date"}
                \cup (IF entry.mileage # None THEN {"mileage"} ELSE {})
                \cup (IF entry.performed_by # None THEN {"performedBy"} ELSE {})
                \cup (IF entry.notes # None THEN {"notes"} ELSE {})
                \cup (IF entry.cost # None THEN {"cost"} ELSE {})
    IN  [k \in keys |->
            CASE k = "ruleKey" -> entry.rule_key
              [] k = "date" -> entry.date
              [] k = "mileage" -> entry.mileage[1]
              [] k = "performedBy" -> entry.performed_by[1]
              [] k = "notes" -> entry.notes[1]
              [] k = "cost" -> entry.cost[1]]

\* _rule_to_dict
rule_to_dict(rule) ==
    LET keys == {"item", "verb"}
                \cup (IF rule.phase # None THEN {"phase"} ELSE {})
                \cup (IF rule.interval_miles # None THEN {"intervalMiles"} ELSE {})
                \cup (IF rule.interval_months # None THEN {"intervalMonths"} ELSE {})
                \cup (IF rule.severe_interval_miles # None
                      THEN {"severeIntervalMiles"} ELSE {})
                \cup (IF rule.severe_interval_months # None
                      THEN {"severeIntervalMonths"} ELSE {})
                \cup (IF rule.notes # None THEN {"notes"} ELSE {})
                \cup (IF rule.start_miles # 0 THEN {"startMiles"} ELSE {})
                \cup (IF rule.stop_miles # StopMilesDefault THEN {"stopMiles"} ELSE {})
                \cup (IF rule.start_months # 0 THEN {"startMonths"} ELSE {})
                \cup (IF rule.stop_months # StopMonthsDefault
                      THEN {"stopMonths"} ELSE {})
                \cup (IF rule.aftermarket THEN {"aftermarket"} ELSE {})
    IN  [k \in keys |->
            CASE k = "item" -> rule.item
              [] k = "verb" -> rule.verb
              [] k = "phase" -> rule.phase
              [] k = "intervalMiles" -> rule.interval_miles[1]
              [] k = "intervalMonths" -> rule.interval_months[1]
              [] k = "severeIntervalMiles" -> rule.severe_interval_miles[1]
              [] k = "severeIntervalMonths" -> rule.severe_interval_months[1]
              [] k = "notes" -> rule.notes[1]
              [] k = "startMiles" -> rule.start_miles
              [] k = "stopMiles" -> rule.stop_miles
              [] k = "startMonths" -> rule.start_months
              [] k = "stopMonths" -> rule.stop_months
              [] k = "aftermarket" -> rule.aftermarket]

\* _parse_object on a rule mapping
ParseRule(dct) ==
    Rule(dct["item"], dct["verb"], Get(dct, "intervalMiles"),
         Get(dct, "intervalMonths"), Get(dct, "severeIntervalMiles"),
         Get(dct, "severeIntervalMonths"), Get(dct, "notes"),
         IF "phase" \in DOMAIN dct THEN dct["phase"] ELSE None,
         Get(dct, "startMiles"), Get(dct, "stopMiles"), Get(dct, "startMonths"),
         Get(dct, "stopMonths"), Get(dct, "aftermarket"))

\* _parse_object on a history mapping
ParseEntry(dct) ==
    HistoryEntry(dct["ruleKey"], dct["date"], Get(dct, "mileage"),
                 Get(dct, "performedBy"), Get(dct, "notes"), Get(dct, "cost"))

\* the list under key k with x appended, made first when there is none
Appended(data, k, x) ==
    LET made == IF HasValue(data, k) THEN data ELSE Put(data, k, YList(<<>>))
    IN  Put(made, k, YList(Append(made[k].items, x)))

\* save_history_entry that starts the list afresh
save_history_entry_fresh_list(f, entry) ==
    FileWith(Appended(Put(f.data, "history", YNull), "history", EntryDict(entry)))

\* save_history_entry
save_history_entry(f, entry) ==
    FileWith(Appended(f.data, "history", EntryDict(entry)))

\* add_rule
add_rule(f, rule) == FileWith(Appended(f.data, "rules", rule_to_dict(rule)))

\* what Python raises for an index outside the list
IndexError == [raised |-> "IndexError"]

\* a call that returned normally
Returned == [raised |-> "nothing"]

\* data.get(k) or []
GetOrEmpty(data, k) == IF HasValue(data, k) THEN data[k].items ELSE <<>>

\* items[index] = x, index counted from 0
ReplacedAt(items, index, x) ==
    [i \in 1..Len(items) |-> IF i = index + 1 THEN x ELSE items[i]]

\* del items[index], index counted from 0
DeletedAt(items, index) ==
    SubSeq(items, 1, index) \o SubSeq(items, index + 2, Len(items))

\* the outcome of a call that replaces element index of the list under k by x:
\* what it raised, and the file it leaves
ReplaceInFile(f, k, index, x) ==
    LET items == GetOrEmpty(f.data, k)
    IN  IF index < 0 \/ index >= Len(items)
        THEN [ret |-> IndexError, file |-> f]
        ELSE [ret |-> Returned,
              file |-> FileWith(Put(f.data, k, YList(ReplacedAt(items, index, x))))]

\* the outcome of a call that deletes element index of the list under k
DeleteInFile(f, k, index) ==
    LET items == GetOrEmpty(f.data, k)
    IN  IF index < 0 \/ index >= Len(items)
        THEN [ret |-> IndexError, file |-> f]
        ELSE [ret |-> Returned,
              file |-> FileWith(Put(f.data, k, YList(DeletedAt(items, index))))]

\* update_history_entry that writes the list up to the replaced element only
update_history_entry_truncating(f, index, entry) ==
    LET out == ReplaceInFile(f, "history", index, EntryDict(entry))
    IN  IF out.ret = IndexError THEN out
        ELSE [ret |-> Returned,
              file |-> FileWith(Put(f.data, "history",
                          YList(SubSeq(out.file.data["history"].items, 1, index + 1))))]

\* update_history_entry
update_history_entry(f, index, entry) ==
    ReplaceInFile(f, "history", index, EntryDict(entry))

\* update_rule
update_rule(f, index, rule) == ReplaceInFile(f, "rules", index, rule_to_dict(rule))

\* delete_rule that also drops the history saved under the rule's key
delete_rule_cascading(f, index) ==
    LET out == DeleteInFile(f, "rules", index)
    IN  IF out.ret = IndexError THEN out
        ELSE [ret |-> Returned,
              file |-> FileWith(Put(out.file.data, "history", YList(<<>>)))]

\* delete_rule
delete_rule(f, index) == DeleteInFile(f, "rules", index)

\* delete_history_entry that accepts Python's negative indices
delete_history_entry_from_end(f, index) ==
    LET items == GetOrEmpty(f.data, "history")
    IN  IF index < 0 /\ -index <= Len(items)
        THEN DeleteInFile(f, "history", Len(items) + index)
        ELSE DeleteInFile(f, "history", index)

\* delete_history_entry
delete_history_entry(f, index) == DeleteInFile(f, "history", index)

\* Car.__init__ (models/car.py); trim is an Optional[str]
Car(make, model, trim, year, purchase_date, purchase_miles) ==
    [make |-> make, model |-> model, trim |-> trim, year |-> year,
     purchase_date |-> purchase_date, purchase_miles |-> purchase_miles]

\* _car_to_dict
car_to_dict(car) ==
    [k \in {"make", "model", "year", "purchaseDate", "purchaseMiles"}
           \cup (IF car.trim # None THEN {"trim"} ELSE {}) |->
        CASE k = "make" -> car.make
          [] k = "model" -> car.model
          [] k = "year" -> car.year
          [] k = "purchaseDate" -> car.purchase_date
          [] k = "purchaseMiles" -> car.purchase_miles
          [] k = "trim" -> car.trim[1]]

\* data["state"][k] = v, the state section made first when there is none
PutState(data, k, v) ==
    LET made == IF HasValue(data, "state") THEN data
                ELSE Put(data, "state", YMap(<<>>))
    IN  Put(made, "state", YMap(Put(made["state"].fields, k, v)))

\* save_current_miles that never lowers the stored mileage
save_current_miles_raising(f, miles) ==
    LET old == IF HasValue(f.data, "state")
                  /\ "currentMiles" \in DOMAIN f.data["state"].fields
               THEN f.data["state"].fields["currentMiles"] ELSE miles
    IN  FileWith(PutState(f.data, "currentMiles", IF old > miles THEN old ELSE miles))

\* save_current_miles
save_current_miles(f, miles) == FileWith(PutState(f.data, "currentMiles", miles))

\* create_vehicle
create_vehicle(car, miles, as_of) ==
    LET given == (IF miles # None THEN {"currentMiles"} ELSE {})
                 \cup (IF as_of # None THEN {"asOfDate"} ELSE {})
        state == IF given = {} THEN [k \in {"currentMiles"} |-> car.purchase_miles]
                 ELSE [k \in given |->
                          IF k = "currentMiles" THEN miles[1] ELSE as_of]
    IN  FileWith([k \in {"car", "state", "rules", "history"} |->
                     CASE k = "car" -> YMap(car_to_dict(car))
                       [] k = "state" -> YMap(state)
                       [] k = "rules" -> YList(<<>>)
                       [] k = "history" -> YList(<<>>)])

\* update_vehicle_meta that writes a fresh state section
update_vehicle_meta_fresh_state(f, car, miles, as_of) ==
    LET with_car == IF car # None THEN Put(f.data, "car", YMap(car_to_dict(car[1])))
                    ELSE f.data
        cleared == Put(with_car, "state", YNull)
        with_miles == IF miles # None
                      THEN PutState(cleared, "currentMiles", miles[1])
                      ELSE cleared
    IN  FileWith(IF as_of # None THEN PutState(with_miles, "asOfDate", as_of)
                 ELSE with_miles)

\* update_vehicle_meta; car is an Optional[Car], miles an Optional[float] and
\* as_of a date or None
update_vehicle_meta(f, car, miles, as_of) ==
    LET with_car == IF car # None THEN Put(f.data, "car", YMap(car_to_dict(car[1])))
                    ELSE f.data
        with_miles == IF miles # None
                      THEN PutState(with_car, "currentMiles", miles[1])
                      ELSE with_car
    IN  FileWith(IF as_of # None THEN PutState(with_miles, "asOfDate", as_of)
                 ELSE with_miles)

\* delete_vehicle
delete_vehicle(f) == NoFile

\* load_vehicle: _parse_object on the document; the car is reduced to its
\* purchaseMiles
load_vehicle(f) ==
    LET dct == f.data
        state == IF HasValue(dct, "state") THEN dct["state"].fields ELSE <<>>
        rules == GetOrEmpty(dct, "rules")
        history == GetOrEmpty(dct, "history")
    IN  Vehicle(dct["car"].fields["purchaseMiles"],
                [i \in 1..Len(rules) |-> ParseRule(rules[i])],
                [i \in 1..Len(history) |-> ParseEntry(history[i])],
                IF "asOfDate" \in DOMAIN state THEN state["asOfDate"] ELSE None,
                Get(state, "currentMiles"))

----------------------------------------------------------------------------
(* maint.py and web/app.py: the commands and views; what they print is not   *)
(* modelled beyond the rows of the history listing                           *)

\* the exit status a command returns
Exit(code) == [exit |-> code]

\* what Python raises for a read of an attribute the object does not have
AttributeError == [raised |-> "AttributeError"]

\* the attributes of a Rule: the fields __init__ sets, key, base_key and
\* is_active_at
RuleAttributes ==
    {"item", "verb", "interval_miles", "interval_months", "severe_interval_miles",
     "severe_interval_months", "notes", "phase", "start_miles", "stop_miles",
     "start_months", "stop_months", "aftermarket", "key", "base_key", "is_active_at"}

\* rule.display_name, which the commands read to print a rule: TRUE when the
\* read raises AttributeError
DisplayNameRaises == "display_name" \notin RuleAttributes

\* Vehicle.get_rule, as an Optional
get_rule(v, k) ==
    LET hits == {i \in 1..Len(v.rules) : key(v.rules[i]) = k}
    IN  IF hits = {} THEN None
        ELSE Some(v.rules[CHOOSE i \in hits : \A j \in hits : i <= j])

\* the first rule whose key equals k without regard to case, as an Optional
RuleNoCase(v, k) ==
    LET hits == {i \in 1..Len(v.rules) : LowerCase(key(v.rules[i])) = LowerCase(k)}
    IN  IF hits = {} THEN None
        ELSE Some(v.rules[CHOOSE i \in hits : \A j \in hits : i <= j])

\* enumerate(history): the pairs (raw_index, entry), raw_index counted from 0
Enumerated(history) ==
    [i \in 1..Len(history) |-> [index |-> i - 1, entry |-> history[i]]]

\* sorted(pairs, key=lambda ie: key of ie[1], reverse=reverse)
RECURSIVE SortedPairs(_, _, _)
SortedPairs(pairs, sort_by, reverse) ==
    IF pairs = <<>> THEN <<>>
    ELSE LET x == pairs[Len(pairs)]
             rest == SortedPairs(SubSeq(pairs, 1, Len(pairs) - 1), sort_by, reverse)
             StaysBefore(p) ==
                 IF reverse THEN ~SortKeyLess(p.entry, x.entry, sort_by)
                 ELSE ~SortKeyLess(x.entry, p.entry, sort_by)
             n == Cardinality({i \in 1..Len(rest) : StaysBefore(rest[i])})
         IN  SubSeq(rest, 1, n) \o <<x>> \o SubSeq(rest, n + 1, Len(rest))

\* cmd_history that numbers the rows of the listing
cmd_history_numbering_rows(f, sort, asc, rule, since, show_index) ==
    LET v == load_vehicle(f)
        ByRule(p) == rule = None \/ rule[1] = <<>>
                     \/ Contains(LowerCase(p.entry.rule_key), LowerCase(rule[1]))
        BySince(p) == since = None \/ ~TupleLess(p.entry.date, since[1])
        shown == SelectSeq(SelectSeq(SortedPairs(Enumerated(v.history), sort, ~asc),
                                     ByRule), BySince)
        Named(p) == get_rule(v, p.entry.rule_key) # None
    IN  IF DisplayNameRaises /\ \E i \in 1..Len(shown) : Named(shown[i])
        THEN [ret |-> AttributeError, file |-> f, rows |-> <<>>]
        ELSE [ret |-> Exit(0), file |-> f,
              rows |-> [i \in 1..Len(shown) |->
                           [index |-> IF show_index THEN Some(i - 1) ELSE None,
                            entry |-> shown[i].entry]]]

\* cmd_history: the rows of the listing, each with the index printed beside
\* it (None without --show-index) and the entry it shows; rule and since are
\* Optional. make_history_table reads rule.display_name for every shown entry
\* whose key is the key of a rule
cmd_history(f, sort, asc, rule, since, show_index) ==
    LET v == load_vehicle(f)
        ByRule(p) == rule = None \/ rule[1] = <<>>
                     \/ Contains(LowerCase(p.entry.rule_key), LowerCase(rule[1]))
        BySince(p) == since = None \/ ~TupleLess(p.entry.date, since[1])
        shown == SelectSeq(SelectSeq(SortedPairs(Enumerated(v.history), sort, ~asc),
                                     ByRule), BySince)
        Named(p) == get_rule(v, p.entry.rule_key) # None
    IN  IF DisplayNameRaises /\ \E i \in 1..Len(shown) : Named(shown[i])
        THEN [ret |-> AttributeError, file |-> f, rows |-> <<>>]
        ELSE [ret |-> Exit(0), file |-> f,
              rows |-> [i \in 1..Len(shown) |->
                           [index |-> IF show_index THEN Some(shown[i].index) ELSE None,
                            entry |-> shown[i].entry]]]

\* the verb of a rule key: rule_key.split("/")[1].lower(), "" when there is none
VerbOf(k) ==
    LET slashes == {i \in 1..Len(k) : k[i] = "/"}
        first == CHOOSE i \in slashes : \A j \in slashes : i <= j
        rest == SubSeq(k, first + 1, Len(k))
        more == {i \in 1..Len(rest) : rest[i] = "/"}
    IN  IF slashes = {} THEN <<>>
        ELSE LowerCase(IF more = {} THEN rest
                       ELSE SubSeq(rest, 1, (CHOOSE i \in more : \A j \in more : i <= j) - 1))

\* vehicle_history (web/app.py): the pairs handed to the history page, newest
\* first, filtered to the verbs in include_verbs when any is given
vehicle_history(f, include_verbs) ==
    LET v == load_vehicle(f)
        Included(p) == include_verbs = {}
                       \/ VerbOf(p.entry.rule_key) \in {LowerCase(x) : x \in include_verbs}
        shown == SelectSeq(SortedPairs(Enumerated(v.history), "date", TRUE), Included)
    IN  [ret |-> Exit(0), file |-> f,
         rows |-> [i \in 1..Len(shown) |->
                      [index |-> Some(shown[i].index), entry |-> shown[i].entry]]]

\* cmd_delete (history delete); rule.display_name is read when the entry's key
\* is the key of a rule
cmd_delete(f, index, dry_run) ==
    LET v == load_vehicle(f)
    IN  IF index < 0 \/ index >= Len(v.history) THEN [ret |-> Exit(1), file |-> f]
        ELSE IF DisplayNameRaises /\ get_rule(v, v.history[index + 1].rule_key) # None
        THEN [ret |-> AttributeError, file |-> f]
        ELSE IF dry_run THEN [ret |-> Exit(0), file |-> f]
        ELSE LET out == delete_history_entry(f, index)
             IN  [ret |-> Exit(IF out.ret = IndexError THEN 1 ELSE 0), file |-> out.file]

\* val if val is not None else existing, for an Optional val and a plain
\* existing value
Override(val, existing) == IF val # None THEN val[1] ELSE existing

\* val if val is not None else existing, for two Optionals
OverrideOptional(val, existing) == IF val # None THEN val ELSE existing

\* cmd_log (history add); a holds the arguments, Optional when not required,
\* today is the clock read when no --date is passed. rule.display_name is
\* read for every rule when the key is unknown and for the matched rule
\* otherwise
cmd_log(f, a, today, dry_run) ==
    LET v == load_vehicle(f)
        rule == RuleNoCase(v, a.rule_key)
    IN  IF DisplayNameRaises /\ (rule # None \/ v.rules # <<>>)
        THEN [ret |-> AttributeError, file |-> f]
        ELSE IF rule = None THEN [ret |-> Exit(1), file |-> f]
        ELSE LET entry == HistoryEntry(key(rule[1]),
                                       IF a.date # None /\ a.date[1] # <<>>
                                       THEN a.date[1] ELSE today,
                                       a.mileage, a.by, a.notes, a.cost)
             IN  IF dry_run THEN [ret |-> Exit(0), file |-> f]
                 ELSE [ret |-> Exit(0), file |-> save_history_entry(f, entry)]

\* cmd_edit (history edit); rule.display_name is read when a rule is found,
\* and the entry is built with rule.key, which raises AttributeError when no
\* --rule-key is passed and no rule has the stored key
cmd_edit(f, index, a, dry_run) ==
    LET v == load_vehicle(f)
    IN  IF index < 0 \/ index >= Len(v.history) THEN [ret |-> Exit(1), file |-> f]
        ELSE LET existing == v.history[index + 1]
                 rule == IF a.rule_key # None THEN RuleNoCase(v, a.rule_key[1])
                         ELSE get_rule(v, existing.rule_key)
             IN  IF a.rule_key # None /\ rule = None THEN [ret |-> Exit(1), file |-> f]
                 ELSE IF rule # None /\ DisplayNameRaises
                 THEN [ret |-> AttributeError, file |-> f]
                 ELSE IF rule = None THEN [ret |-> AttributeError, file |-> f]
                 ELSE LET entry == HistoryEntry(key(rule[1]),
                                       Override(a.date, existing.date),
                                       OverrideOptional(a.mileage, existing.mileage),
                                       OverrideOptional(a.by, existing.performed_by),
                                       OverrideOptional(a.notes, existing.notes),
                                       OverrideOptional(a.cost, existing.cost))
                          out == update_history_entry(f, index, entry)
                      IN  IF dry_run THEN [ret |-> Exit(0), file |-> f]
                          ELSE [ret |-> Exit(IF out.ret = IndexError THEN 1 ELSE 0),
                                file |-> out.file]

\* cmd_edit_rule (rules edit); set_aftermarket is an Optional[str];
\* rule.display_name is read before --dry-run is looked at
cmd_edit_rule(f, index, a, dry_run) ==
    LET v == load_vehicle(f)
    IN  IF index < 0 \/ index >= Len(v.rules) THEN [ret |-> Exit(1), file |-> f]
        ELSE LET existing == v.rules[index + 1]
                 aftermarket == IF a.set_aftermarket # None
                                THEN LowerCase(a.set_aftermarket[1]) = <<"t", "r", "u", "e">>
                                ELSE existing.aftermarket
                 rule == Rule(Override(a.item, existing.item),
                              Override(a.verb, existing.verb),
                              OverrideOptional(a.interval_miles, existing.interval_miles),
                              OverrideOptional(a.interval_months, existing.interval_months),
                              OverrideOptional(a.severe_interval_miles,
                                               existing.severe_interval_miles),
                              OverrideOptional(a.severe_interval_months,
                                               existing.severe_interval_months),
                              OverrideOptional(a.notes, existing.notes),
                              Override(a.phase, existing.phase),
                              Some(Override(a.start_miles, existing.start_miles)),
                              Some(Override(a.stop_miles, existing.stop_miles)),
                              Some(Override(a.start_months, existing.start_months)),
                              Some(Override(a.stop_months, existing.stop_months)),
                              Some(aftermarket))
                 out == update_rule(f, index, rule)
             IN  IF DisplayNameRaises THEN [ret |-> AttributeError, file |-> f]
                 ELSE IF dry_run THEN [ret |-> Exit(0), file |-> f]
                 ELSE [ret |-> Exit(IF out.ret = IndexError THEN 1 ELSE 0),
                       file |-> out.file]

\* cmd_delete_rule (rules delete)
cmd_delete_rule(f, index, dry_run) ==
    LET v == load_vehicle(f)
        out == delete_rule(f, index)
    IN  IF index < 0 \/ index >= Len(v.rules) THEN [ret |-> Exit(1), file |-> f]
        ELSE IF DisplayNameRaises THEN [ret |-> AttributeError, file |-> f]
        ELSE IF dry_run THEN [ret |-> Exit(0), file |-> f]
        ELSE [ret |-> Exit(IF out.ret = IndexError THEN 1 ELSE 0), file |-> out.file]

\* cmd_rules_add (rules add); item and verb are required arguments and hold no
\* surrounding blanks
cmd_rules_add(f, a, dry_run) ==
    LET aftermarket == a.set_aftermarket # None
                       /\ LowerCase(a.set_aftermarket[1]) = <<"t", "r", "u", "e">>
        rule == Rule(a.item, a.verb, a.interval_miles, a.interval_months,
                     a.severe_interval_miles, a.severe_interval_months,
                     IF a.notes # None /\ a.notes[1] # <<>> THEN a.notes ELSE None,
                     IF a.phase # None THEN a.phase[1] ELSE None,
                     Some(Override(a.start_miles, 0)),
                     Some(Override(a.stop_miles, StopMilesDefault)),
                     Some(Override(a.start_months, 0)),
                     Some(Override(a.stop_months, StopMonthsDefault)),
                     Some(aftermarket))
    IN  IF a.item = <<>> \/ a.verb = <<>> THEN [ret |-> Exit(1), file |-> f]
        ELSE IF DisplayNameRaises THEN [ret |-> AttributeError, file |-> f]
        ELSE IF dry_run THEN [ret |-> Exit(0), file |-> f]
        ELSE [ret |-> Exit(0), file |-> add_rule(f, rule)]

\* cmd_vehicle_create (add), after the test of main that the file does not
\* exist yet; a.car holds the car arguments
cmd_vehicle_create(f, a, dry_run) ==
    IF f.exists THEN [ret |-> Exit(1), file |-> f]
    ELSE IF dry_run THEN [ret |-> Exit(0), file |-> f]
    ELSE [ret |-> Exit(0), file |-> create_vehicle(a.car, a.current_miles, a.as_of_date)]

\* _parse_object on the car mapping
ParseCar(dct) ==
    Car(dct["make"], dct["model"], Get(dct, "trim"), dct["year"],
        dct["purchaseDate"], dct["purchaseMiles"])

\* cmd_vehicle_edit (edit); the car arguments are Optional, a trim of "" clears
\* the trim
cmd_vehicle_edit(f, a, dry_run) ==
    LET old == ParseCar(f.data["car"].fields)
        car == IF a.make = None /\ a.model = None /\ a.trim = None /\ a.year = None
                  /\ a.purchase_date = None /\ a.purchase_miles = None
               THEN None
               ELSE Some(Car(Override(a.make, old.make), Override(a.model, old.model),
                             IF a.trim = None THEN old.trim
                             ELSE IF a.trim[1] = <<>> THEN None ELSE a.trim,
                             Override(a.year, old.year),
                             Override(a.purchase_date, old.purchase_date),
                             Override(a.purchase_miles, old.purchase_miles)))
    IN  IF dry_run THEN [ret |-> Exit(0), file |-> f]
        ELSE [ret |-> Exit(0),
              file |-> update_vehicle_meta(f, car, a.current_miles, a.as_of_date)]

\* cmd_vehicle_delete that looks at --force first
cmd_vehicle_delete_force_first(f, force, dry_run) ==
    IF force THEN [ret |-> Exit(0), file |-> delete_vehicle(f)]
    ELSE IF dry_run THEN [ret |-> Exit(0), file |-> f]
    ELSE [ret |-> Exit(1), file |-> f]

\* cmd_vehicle_delete (delete)
cmd_vehicle_delete(f, force, dry_run) ==
    IF dry_run THEN [ret |-> Exit(0), file |-> f]
    ELSE IF ~force THEN [ret |-> Exit(1), file |-> f]
    ELSE [ret |-> Exit(0), file |-> delete_vehicle(f)]

----------------------------------------------------------------------------
(* Bounds and input domains *)

MaxMiles == 3

MaxDueHistory == 1

Miles == 0..MaxMiles

OptMiles == {None} \cup {Some(m) : m \in Miles}

Oil == <<"o", "i", "l">>

Tires == <<"t", "i", "r", "e", "s">>

Replace == <<"r", "e", "p", "l", "a", "c", "e">>

Replacement == Replace \o <<"m", "e", "n", "t">>

Rotate == <<"r", "o", "t", "a", "t", "e">>

Initial == <<"i", "n", "i", "t", "i", "a", "l">>

Ongoing == <<"o", "n", "g", "o", "i", "n", "g">>

\* rule keys found in history files: free text
HistoryKeys ==
    {Oil \o Slash \o Replace,
     Oil \o Slash \o Replace \o Slash \o Initial,
     Oil \o Slash \o Replacement,
     Tires \o Slash \o Rotate}

\* service dates: a month end and a mid-month day of a leap year
ServiceDates == {<<2024, 1, 31>>, <<2024, 3, 15>>}

\* the as-of date stored in the state section, and readings of the clock
AsOfDates == {<<2024, 2, 29>>}

ClockDates == {<<2024, 3, 16>>, <<2024, 5, 1>>}

\* sequences over S of length at most n
RECURSIVE SeqsUpTo(_, _)
SeqsUpTo(S, n) ==
    IF n = 0 THEN {<<>>}
    ELSE LET shorter == SeqsUpTo(S, n - 1)
         IN  shorter \cup {Append(s, x) : s \in shorter, x \in S}

\* history entries of the service-due runs: a key the rule matches, on
\* either date, and one it does not; each with and without a mileage
DueEntries ==
    {HistoryEntry(Oil \o Slash \o Replace \o Slash \o Initial, d, m, None, None, None) :
        d \in ServiceDates, m \in {None, Some(1), Some(MaxMiles)}}
    \cup
    {HistoryEntry(Tires \o Slash \o Rotate, <<2024, 1, 31>>, m, None, None, None) :
        m \in {None, Some(MaxMiles)}}

DueVehicles ==
    {Vehicle(0, <<>>, h, a, c) :
        h \in SeqsUpTo(DueEntries, MaxDueHistory),
        a \in {None} \cup AsOfDates,
        c \in OptMiles}

\* mileage windows (start_miles, stop_miles) as given to Rule: the defaults,
\* and a window that opens late and closes
DueWindows == {<<None, None>>, <<Some(1), Some(MaxMiles)>>}

\* months in quarters: 1.5 months, 1 month
DueRules ==
    {Rule(Oil, Replace, im, imo, sim, simo, None, None, w[1], w[2], None, None, None) :
        im \in {None, Some(0), Some(2)},
        imo \in {None, Some(6)},
        sim \in {None, Some(0), Some(1)},
        simo \in {None, Some(4)},
        w \in DueWindows}

DueSoonMiles == {0, 1}

DueSoonMonths == {0, 4}

NoCall == [op |-> "none"]

----------------------------------------------------------------------------
(* Service-due runs: a loaded vehicle, then calls of calculate_service_due *)

InitDue ==
    /\ vehicle \in DueVehicles
    /\ call = NoCall
    /\ file = NoFile

\* date.today() is read only when the state section stores no as-of date
ClockReadings(v) ==
    IF v.state_as_of_date # None THEN {v.state_as_of_date} ELSE ClockDates

CalculateServiceDue ==
    /\ call = NoCall
    /\ \E rule \in DueRules, dsm \in DueSoonMiles, dsmo \in DueSoonMonths,
          severe \in BOOLEAN, today \in ClockReadings(vehicle) :
           call' = [op |-> "calculate_service_due", rule |-> rule,
                    due_soon_miles |-> dsm, due_soon_months |-> dsmo,
                    severe |-> severe, as_of |-> as_of_date(vehicle, today),
                    ret |-> calculate_service_due(vehicle, rule, dsm, dsmo,
                                                  severe, today)]
    /\ UNCHANGED <<vehicle, file>>

\* the caller takes the result; the vehicle object stays loaded
Return ==
    /\ call # NoCall
    /\ call' = NoCall
    /\ UNCHANGED <<vehicle, file>>

NextDue == CalculateServiceDue \/ Return

SpecDue == InitDue /\ [][NextDue]_vars

----------------------------------------------------------------------------
(* Lookup runs: a loaded vehicle with a longer history, then reads of        *)
(* current_miles and calls of get_last_service_for_item                      *)

MaxHistory == 2

LookupEntries ==
    {HistoryEntry(k, d, m, None, None, None) :
        k \in HistoryKeys, d \in ServiceDates, m \in {None, Some(1), Some(MaxMiles)}}

InitVehicle ==
    /\ \E p \in {0, MaxMiles - 1}, h \in SeqsUpTo(LookupEntries, MaxHistory),
          c \in OptMiles :
           vehicle = Vehicle(p, <<>>, h, None, c)
    /\ call = NoCall
    /\ file = NoFile

CurrentMiles ==
    /\ call = NoCall
    /\ call' = [op |-> "current_miles", ret |-> current_miles(vehicle)]
    /\ UNCHANGED <<vehicle, file>>

GetLastServiceForItem ==
    /\ call = NoCall
    /\ \E item \in {Oil, Tires}, verb \in {Replace, Replacement, Rotate} :
           call' = [op |-> "get_last_service_for_item", item |-> item,
                    verb |-> verb,
                    ret |-> get_last_service_for_item(vehicle, item, verb)]
    /\ UNCHANGED <<vehicle, file>>

NextVehicle == CurrentMiles \/ GetLastServiceForItem \/ Return

SpecVehicle == InitVehicle /\ [][NextVehicle]_vars

----------------------------------------------------------------------------
(* Classification runs: calls of check_status on raw numbers *)

MaxValue == 4

MaxThreshold == 2

NoVehicle == Vehicle(0, <<>>, <<>>, None, None)

InitStatus ==
    /\ vehicle = NoVehicle
    /\ call = NoCall
    /\ file = NoFile

CheckStatus ==
    /\ call = NoCall
    /\ \E current \in 0..MaxValue, due \in 0..MaxValue,
          t \in (-MaxThreshold)..MaxThreshold :
           call' = [op |-> "check_status", current |-> current, due |-> due,
                    soon_threshold |-> t, ret |-> check_status(current, due, t)]
    /\ UNCHANGED <<vehicle, file>>

NextStatus == CheckStatus \/ Return

SpecStatus == InitStatus /\ [][NextStatus]_vars

----------------------------------------------------------------------------
(* Status-list runs: a loaded vehicle with rules and history, then calls of  *)
(* get_all_service_status, with and without the callers' keyword arguments,  *)
(* and of calculate_service_due on one of the vehicle's rules                *)

MaxRules == 2

MaxAllHistory == 2

\* an oil rule, a lifecycle phase of it, and a tire rule with a mileage window
AllRules ==
    {Rule(Oil, Replace, Some(2), Some(6), Some(1), None, None, None, None, None, None, None, None),
     Rule(Oil, Replace, None, Some(4), None, None, None, Initial, None, Some(MaxMiles), None, None, None),
     Rule(Tires, Rotate, Some(1), None, None, None, None, None, Some(1), None, None, None, None)}

AllEntries ==
    {HistoryEntry(Oil \o Slash \o Replace \o Slash \o Initial, <<2024, 1, 31>>, Some(2), None, None, None),
     HistoryEntry(Oil \o Slash \o Replace, <<2024, 3, 15>>, None, None, None, None),
     HistoryEntry(Oil \o Slash \o Replacement, <<2024, 3, 15>>, None, None, None, None),
     HistoryEntry(Tires \o Slash \o Rotate, <<2024, 1, 31>>, Some(MaxMiles), None, None, None)}

\* sequences without repetition
Distinct(S) == {q \in S : \A i, j \in 1..Len(q) : q[i] = q[j] => i = j}

AllVehicles ==
    {Vehicle(0, r, h, a, c) :
        r \in Distinct(SeqsUpTo(AllRules, MaxRules)),
        h \in SeqsUpTo(AllEntries, MaxAllHistory),
        a \in {None} \cup AsOfDates,
        c \in {None, Some(1)}}

\* n readings of a clock that does not run backwards
Clocks(n) ==
    {q \in SeqsUpTo(ClockDates, n) :
        /\ Len(q) = n
        /\ \A i \in 1..(n - 1) : ToOrdinal(q[i]) <= ToOrdinal(q[i + 1])}

\* rule verbs a caller may ask to leave out
ExcludeVerbs == {None, Some(<<Rotate>>), Some(<<<<"R">> \o Tail(Rotate), Replacement>>)}

InitAll ==
    /\ vehicle \in AllVehicles
    /\ call = NoCall
    /\ file = NoFile

GetAllServiceStatus ==
    /\ call = NoCall
    /\ \E dsm \in DueSoonMiles, severe \in BOOLEAN,
          todays \in Clocks(Len(vehicle.rules)) :
           call' = [op |-> "get_all_service_status",
                    due_soon_miles |-> dsm, due_soon_months |-> Quarters,
                    severe |-> severe,
                    as_of |-> [i \in 1..Len(todays) |-> as_of_date(vehicle, todays[i])],
                    ret |-> CallWithKeywords({"due_soon_miles", "due_soon_months", "severe"},
                                get_all_service_status(vehicle, dsm, Quarters,
                                                       severe, todays))]
    /\ UNCHANGED <<vehicle, file>>

\* the call of cmd_status and of vehicle_status_partial: the thresholds are
\* left to their defaults and exclude_verbs is passed by keyword
GetAllServiceStatusExcluding ==
    /\ call = NoCall
    /\ \E severe \in BOOLEAN, exclude_verbs \in ExcludeVerbs,
          todays \in Clocks(Len(vehicle.rules)) :
           call' = [op |-> "get_all_service_status_excluding",
                    due_soon_miles |-> 1, due_soon_months |-> Quarters,
                    severe |-> severe, exclude_verbs |-> exclude_verbs,
                    as_of |-> [i \in 1..Len(todays) |-> as_of_date(vehicle, todays[i])],
                    ret |-> CallWithKeywords({"severe", "exclude_verbs"},
                                get_all_service_status(vehicle, 1, Quarters,
                                                       severe, todays))]
    /\ UNCHANGED <<vehicle, file>>

CalculateServiceDueOfRule ==
    /\ call = NoCall
    /\ \E i \in 1..Len(vehicle.rules), dsm \in DueSoonMiles, severe \in BOOLEAN,
          today \in ClockDates :
           call' = [op |-> "calculate_service_due", rule |-> vehicle.rules[i],
                    due_soon_miles |-> dsm, due_soon_months |-> Quarters,
                    severe |-> severe, as_of |-> as_of_date(vehicle, today),
                    ret |-> calculate_service_due(vehicle, vehicle.rules[i], dsm,
                                                  Quarters, severe, today)]
    /\ UNCHANGED <<vehicle, file>>

NextAll ==
    \/ GetAllServiceStatus
    \/ GetAllServiceStatusExcluding
    \/ CalculateServiceDueOfRule
    \/ Return

SpecAll == InitAll /\ [][NextAll]_vars

----------------------------------------------------------------------------
(* Rule runs: a rule is created with a mileage window and asked whether it  *)
(* is active at a mileage                                                    *)

IsActiveAt ==
    /\ call = NoCall
    /\ \E start \in OptMiles, stop \in OptMiles, miles \in 0..(MaxMiles + 1) :
           call' = [op |-> "is_active_at", start_miles |-> start,
                    stop_miles |-> stop, miles |-> miles,
                    ret |-> is_active_at(Rule(Oil, Replace, Some(2), None, None,
                                              None, None, None, start, stop,
                                              None, None, None), miles)]
    /\ UNCHANGED <<vehicle, file>>

NextRule == IsActiveAt \/ Return

SpecRule == InitStatus /\ [][NextRule]_vars

----------------------------------------------------------------------------
(* Due-date runs: calls of calc_due_date on a last-service date and a month  *)
(* interval given in quarters of a month                                     *)

MaxQuarters == 30

DueDateInputs == ServiceDates \cup {<<2025, 1, 15>>, <<2023, 12, 31>>}

CalcDueDate ==
    /\ call = NoCall
    /\ \E last_date \in {None} \cup DueDateInputs,
          interval_months \in {None} \cup {Some(q) : q \in 0..MaxQuarters} :
           call' = [op |-> "calc_due_date", last_date |-> last_date,
                    interval_months |-> interval_months,
                    ret |-> calc_due_date(last_date, interval_months)]
    /\ UNCHANGED <<vehicle, file>>

NextDate == CalcDueDate \/ Return

SpecDate == InitStatus /\ [][NextDate]_vars

----------------------------------------------------------------------------
(* History-listing runs: a loaded vehicle, then calls of get_history_sorted *)

MaxSortHistory == 3

\* two keys, one a prefix of the other; a mileage of 0 next to a missing one
SortEntries ==
    {HistoryEntry(k, d, None, None, None, None) :
        k \in {Oil \o Slash \o Replace, Oil \o Slash \o Replacement,
               Tires \o Slash \o Rotate},
        d \in ServiceDates}
    \cup
    {HistoryEntry(Oil \o Slash \o Replace, <<2024, 1, 31>>, Some(m), None, None, None) : m \in {0, 1}}

SortVehicles ==
    {Vehicle(0, <<>>, h, None, None) : h \in SeqsUpTo(SortEntries, MaxSortHistory)}

InitHistory ==
    /\ vehicle \in SortVehicles
    /\ call = NoCall
    /\ file = NoFile

GetHistorySorted ==
    /\ call = NoCall
    /\ \E sort_by \in {"date", "miles", "rule", "cost"}, reverse \in BOOLEAN :
           call' = [op |-> "get_history_sorted", sort_by |-> sort_by,
                    reverse |-> reverse, before |-> vehicle.history,
                    ret |-> get_history_sorted(vehicle, sort_by, reverse)]
    /\ UNCHANGED <<vehicle, file>>

NextHistory == GetHistorySorted \/ Return

SpecHistory == InitHistory /\ [][NextHistory]_vars

----------------------------------------------------------------------------
(* Result runs: a ServiceDue is built and its is_due property is read *)

Statuses == {OVERDUE, DUE_SOON, OK, INACTIVE, UNKNOWN}

IsDue ==
    /\ call = NoCall
    /\ \E rule \in AllRules, status \in Statuses, due_miles \in OptMiles,
          miles_remaining \in {None, Some(-1), Some(1)} :
           LET svc == ServiceDue(rule, status, None, None, due_miles, None,
                                 None, None, miles_remaining, None)
           IN  call' = [op |-> "is_due", svc |-> svc, ret |-> is_due(svc)]
    /\ UNCHANGED <<vehicle, file>>

NextServiceDue == IsDue \/ Return

SpecServiceDue == InitStatus /\ [][NextServiceDue]_vars

----------------------------------------------------------------------------
(* Append runs: a vehicle file on disk, then calls of save_history_entry and *)
(* add_rule                                                                  *)

MaxFileRules == 2

MaxFileHistory == 2

Self == <<"s", "e", "l", "f">>

\* the car section; only purchaseMiles is read by the engine
CarSection == YMap([purchaseMiles |-> 0])

StateSections == {YNull, YMap(<<>>), YMap([currentMiles |-> 1])}

\* entries handed to save_history_entry: bare, and with every field set
NewEntries ==
    {HistoryEntry(Oil \o Slash \o Replace, <<2024, 1, 31>>, None, None, None, None),
     HistoryEntry(Oil \o Slash \o Replace, <<2024, 3, 15>>, Some(2), Some(Self),
                  Some(Self), Some(5)),
     HistoryEntry(Tires \o Slash \o Rotate, <<2024, 3, 15>>, Some(0), None, None,
                  Some(0))}

\* rules handed to add_rule: the rules of the status runs, and one with every
\* field set
NewRules ==
    AllRules \cup
    {Rule(Oil, Replace, Some(0), Some(6), Some(1), Some(4), Some(Self), Ongoing,
          Some(1), Some(MaxMiles), Some(1), Some(2), Some(TRUE))}

\* a section that is absent, null, or a list of at most one element
ListSections(elements) ==
    {YNull, YList(<<>>)} \cup {YList(<<x>>) : x \in elements}

\* the documents found on disk: a car, and the other sections present or not
FileDocuments ==
    {[k \in {"car"} \cup s \cup r \cup h |->
         CASE k = "car" -> CarSection
           [] k = "state" -> sv
           [] k = "rules" -> rv
           [] k = "history" -> hv] :
        s \in {{}, {"state"}}, r \in {{}, {"rules"}}, h \in {{}, {"history"}},
        sv \in StateSections,
        rv \in ListSections({rule_to_dict(x) : x \in AllRules}),
        hv \in ListSections({EntryDict(x) : x \in NewEntries})}

InitFile ==
    /\ vehicle = NoVehicle
    /\ call = NoCall
    /\ file \in {FileWith(d) : d \in FileDocuments}

\* the number of elements of the list under key k
ListLen(data, k) == IF HasValue(data, k) THEN Len(data[k].items) ELSE 0

SaveHistoryEntry ==
    /\ call = NoCall
    /\ file.exists
    /\ ListLen(file.data, "history") < MaxFileHistory
    /\ \E entry \in NewEntries :
           /\ call' = [op |-> "save_history_entry", entry |-> entry, before |-> file]
           /\ file' = save_history_entry(file, entry)
    /\ UNCHANGED vehicle

AddRule ==
    /\ call = NoCall
    /\ file.exists
    /\ ListLen(file.data, "rules") < MaxFileRules
    /\ \E rule \in NewRules :
           /\ call' = [op |-> "add_rule", rule |-> rule, before |-> file]
           /\ file' = add_rule(file, rule)
    /\ UNCHANGED vehicle

NextFile == SaveHistoryEntry \/ AddRule \/ Return

SpecFile == InitFile /\ [][NextFile]_vars

----------------------------------------------------------------------------
(* Edit runs: a vehicle file on disk with stored rules and history, then     *)
(* calls of update_history_entry, update_rule, delete_history_entry and      *)
(* delete_rule with indices inside and outside the lists                     *)

MaxStored == 2

\* the indices handed to the calls: one below 0 up to one past the longest list
Indices == (-1)..MaxStored

\* a list section that is absent or null
NoList == {"absent", "null"}

\* the document holding the sections st, rs and hs next to the car
EditDocument(st, rs, hs) ==
    [k \in {"car", "state"} \cup (IF rs = "absent" THEN {} ELSE {"rules"})
                            \cup (IF hs = "absent" THEN {} ELSE {"history"}) |->
        CASE k = "car" -> CarSection
          [] k = "state" -> st
          [] k = "rules" -> (IF rs = "null" THEN YNull ELSE YList(rs))
          [] k = "history" -> (IF hs = "null" THEN YNull ELSE YList(hs))]

InitEdit ==
    /\ vehicle = NoVehicle
    /\ call = NoCall
    /\ \E st \in StateSections,
          rs \in NoList \cup SeqsUpTo({rule_to_dict(x) : x \in AllRules}, MaxStored),
          hs \in NoList \cup SeqsUpTo({EntryDict(x) : x \in NewEntries}, MaxStored) :
           file = FileWith(EditDocument(st, rs, hs))

UpdateHistoryEntry ==
    /\ call = NoCall
    /\ file.exists
    /\ \E index \in Indices, entry \in NewEntries :
           LET out == update_history_entry(file, index, entry)
           IN  /\ call' = [op |-> "update_history_entry", index |-> index,
                           entry |-> entry, before |-> file, ret |-> out.ret]
               /\ file' = out.file
    /\ UNCHANGED vehicle

UpdateRule ==
    /\ call = NoCall
    /\ file.exists
    /\ \E index \in Indices, rule \in NewRules :
           LET out == update_rule(file, index, rule)
           IN  /\ call' = [op |-> "update_rule", index |-> index, rule |-> rule,
                           before |-> file, ret |-> out.ret]
               /\ file' = out.file
    /\ UNCHANGED vehicle

DeleteHistoryEntry ==
    /\ call = NoCall
    /\ file.exists
    /\ \E index \in Indices :
           LET out == delete_history_entry(file, index)
           IN  /\ call' = [op |-> "delete_history_entry", index |-> index,
                           before |-> file, ret |-> out.ret]
               /\ file' = out.file
    /\ UNCHANGED vehicle

DeleteRule ==
    /\ call = NoCall
    /\ file.exists
    /\ \E index \in Indices :
           LET out == delete_rule(file, index)
           IN  /\ call' = [op |-> "delete_rule", index |-> index,
                           before |-> file, ret |-> out.ret]
               /\ file' = out.file
    /\ UNCHANGED vehicle

NextEdit ==
    UpdateHistoryEntry \/ UpdateRule \/ DeleteHistoryEntry \/ DeleteRule \/ Return

SpecEdit == InitEdit /\ [][NextEdit]_vars

----------------------------------------------------------------------------
(* Vehicle-file runs: no file or a hand-written one, then calls that create, *)
(* update, load and delete the vehicle file and edit its history              *)

Cars ==
    {Car(Self, Oil, None, 2015, <<2016, 11, 12>>, 0),
     Car(Self, Tires, Some(Self), 2016, <<2016, 11, 12>>, 1)}

\* the mileages handed to the calls
OdometerReadings == {Some(m) : m \in 0..MaxMiles}

\* the as-of dates handed to the calls
MetaDates == AsOfDates \cup {<<2024, 3, 16>>}

\* a hand-written file: a car, no rules yet, the state section absent, null,
\* empty or holding a field of its own, the history section absent or null
InitMeta ==
    /\ vehicle = NoVehicle
    /\ call = NoCall
    /\ \/ file = NoFile
       \/ \E car \in Cars, st \in {"absent", "null", "empty", "units"},
              hs \in NoList :
              file = FileWith(
                  [k \in {"car", "rules"}
                         \cup (IF st = "absent" THEN {} ELSE {"state"})
                         \cup (IF hs = "absent" THEN {} ELSE {"history"}) |->
                      CASE k = "car" -> YMap(car_to_dict(car))
                        [] k = "rules" -> YList(<<>>)
                        [] k = "state" ->
                               (IF st = "null" THEN YNull
                                ELSE IF st = "empty" THEN YMap(<<>>)
                                ELSE YMap([units |-> Self]))
                        [] k = "history" -> YNull])

CreateVehicle ==
    /\ call = NoCall
    /\ \E car \in Cars, miles \in {None} \cup OdometerReadings,
          as_of \in {None} \cup MetaDates :
           /\ call' = [op |-> "create_vehicle", car |-> car, miles |-> miles,
                       as_of |-> as_of, before |-> file]
           /\ file' = create_vehicle(car, miles, as_of)
    /\ UNCHANGED vehicle

UpdateVehicleMeta ==
    /\ call = NoCall
    /\ file.exists
    /\ \E car \in {None} \cup {Some(c) : c \in Cars},
          miles \in {None} \cup OdometerReadings,
          as_of \in {None} \cup MetaDates :
           /\ call' = [op |-> "update_vehicle_meta", car |-> car, miles |-> miles,
                       as_of |-> as_of, before |-> file]
           /\ file' = update_vehicle_meta(file, car, miles, as_of)
    /\ UNCHANGED vehicle

SaveCurrentMiles ==
    /\ call = NoCall
    /\ file.exists
    /\ \E miles \in OdometerReadings :
           /\ call' = [op |-> "save_current_miles", miles |-> miles, before |-> file]
           /\ file' = save_current_miles(file, miles[1])
    /\ UNCHANGED vehicle

DeleteVehicle ==
    /\ call = NoCall
    /\ file.exists
    /\ call' = [op |-> "delete_vehicle", before |-> file]
    /\ file' = delete_vehicle(file)
    /\ UNCHANGED vehicle

LoadVehicle ==
    /\ call = NoCall
    /\ file.exists
    /\ call' = [op |-> "load_vehicle", before |-> file, ret |-> load_vehicle(file)]
    /\ UNCHANGED <<vehicle, file>>

NextMeta ==
    \/ CreateVehicle
    \/ UpdateVehicleMeta
    \/ SaveCurrentMiles
    \/ DeleteVehicle
    \/ LoadVehicle
    \/ SaveHistoryEntry
    \/ UpdateHistoryEntry
    \/ DeleteHistoryEntry
    \/ Return

SpecMeta == InitMeta /\ [][NextMeta]_vars

----------------------------------------------------------------------------
(* Logging runs: a vehicle file with rules and some history, then services   *)
(* are logged with save_history_entry, the file is loaded again and          *)
(* calculate_service_due is called on the loaded vehicle                     *)

\* the rules of the file: an oil rule, a lifecycle phase of it and a tire rule
LogRules ==
    <<Rule(Oil, Replace, Some(2), Some(6), Some(1), None, None, None, None, None, None, None, None),
      Rule(Oil, Replace, Some(1), None, None, None, None, Initial, None, Some(MaxMiles), None, None, None),
      Rule(Tires, Rotate, Some(1), None, None, None, None, None, Some(1), None, None, None, None)>>

\* entries found in the file: one of the oil rule's phase, one of another verb
\* that begins like the oil rule's, both later than the entries logged
StoredEntries ==
    {HistoryEntry(Oil \o Slash \o Replace \o Slash \o Initial, <<2024, 3, 16>>, Some(1), None, None, None),
     HistoryEntry(Oil \o Slash \o Replace \o Slash \o Initial, <<2024, 1, 31>>, Some(0), None, None, None),
     HistoryEntry(Oil \o Slash \o Replacement, <<2024, 3, 16>>, Some(1), None, None, None)}

InitLog ==
    /\ vehicle = NoVehicle
    /\ call = NoCall
    /\ \E hs \in SeqsUpTo({EntryDict(x) : x \in StoredEntries}, 1) :
           file = FileWith(
               [k \in {"car", "rules", "history"} |->
                   CASE k = "car" -> CarSection
                     [] k = "rules" ->
                            YList([i \in 1..Len(LogRules) |-> rule_to_dict(LogRules[i])])
                     [] k = "history" -> YList(hs)])

\* vehicle = load_vehicle(filename)
ReloadVehicle ==
    /\ call = NoCall
    /\ file.exists
    /\ call' = [op |-> "load_vehicle", before |-> file, ret |-> load_vehicle(file)]
    /\ vehicle' = load_vehicle(file)
    /\ UNCHANGED file

NextLog == SaveHistoryEntry \/ ReloadVehicle \/ CalculateServiceDueOfRule \/ Return

SpecLog == InitLog /\ [][NextLog]_vars

----------------------------------------------------------------------------
(* Listing runs: a vehicle file with history, then the history listing of    *)
(* the command line and the history page of the web application              *)

MaxListed == 3

\* stored entries: equal dates, equal mileages, a missing mileage, and a key
\* that matches no rule; the file holds the rules of the logging runs or, as
\* after every rule was deleted, none
ListedEntries ==
    {HistoryEntry(Oil \o Slash \o Replace, <<2024, 1, 31>>, None, None, None, None),
     HistoryEntry(Oil \o Slash \o Replace, <<2024, 3, 15>>, Some(2), None, None, Some(5)),
     HistoryEntry(Tires \o Slash \o Rotate, <<2024, 1, 31>>, Some(2), None, None, None),
     HistoryEntry(Oil \o Slash \o Replacement, <<2024, 3, 15>>, Some(0), None, None, None)}

\* "Rotate", as typed with a capital
RotateTyped == <<"R">> \o Tail(Rotate)

\* the file holding the rules rs and the history hs
ListedFile(rs, hs) ==
    FileWith([k \in {"car", "rules", "history"} |->
                 CASE k = "car" -> CarSection
                   [] k = "rules" -> YList([i \in 1..Len(rs) |-> rule_to_dict(rs[i])])
                   [] k = "history" -> YList(hs)])

InitListing ==
    /\ vehicle = NoVehicle
    /\ call = NoCall
    /\ \E rs \in {<<>>, LogRules},
          hs \in SeqsUpTo({EntryDict(x) : x \in ListedEntries}, MaxListed) :
           file = ListedFile(rs, hs)

CmdHistory ==
    /\ call = NoCall
    /\ file.exists
    /\ \E sort \in {"date", "miles", "rule"}, asc \in BOOLEAN,
          rule \in {None, Some(Oil), Some(RotateTyped)},
          since \in {None, Some(<<2024, 3, 15>>)}, show_index \in BOOLEAN :
           LET out == cmd_history(file, sort, asc, rule, since, show_index)
           IN  call' = [op |-> "cmd_history", sort |-> sort, asc |-> asc,
                        rule |-> rule, since |-> since, show_index |-> show_index,
                        before |-> file, ret |-> out.ret, rows |-> out.rows]
    /\ UNCHANGED <<vehicle, file>>

VehicleHistory ==
    /\ call = NoCall
    /\ file.exists
    /\ \E include_verbs \in {{}, {Replace}, {RotateTyped, Replacement}} :
           LET out == vehicle_history(file, include_verbs)
           IN  call' = [op |-> "vehicle_history", include_verbs |-> include_verbs,
                        before |-> file, ret |-> out.ret, rows |-> out.rows]
    /\ UNCHANGED <<vehicle, file>>

NextListing == CmdHistory \/ VehicleHistory \/ Return

SpecListing == InitListing /\ [][NextListing]_vars

----------------------------------------------------------------------------
(* SpecCli: the mutating commands of maint.py, run one after another on one   *)
(* vehicle file, each with and without --dry-run                              *)

\* the car of the file the commands start from
CliCar == Car(Self, Oil, None, 2015, <<2016, 11, 12>>, 0)

\* the rule of the file the commands start from
CliRule ==
    Rule(Oil, Replace, Some(2), None, None, None, None, None, None, None, None, None, None)

\* stored entries: one of the rule, one whose key is the key of no rule
CliEntries ==
    {HistoryEntry(Oil \o Slash \o Replace, <<2024, 1, 31>>, Some(1), None, None, None),
     HistoryEntry(Oil \o Slash \o Replacement, <<2024, 3, 15>>, Some(2), Some(Self), None, None)}

\* the file after the entries hs were logged one by one
RECURSIVE Logged(_, _)
Logged(f, hs) ==
    IF hs = <<>> THEN f
    ELSE save_history_entry(Logged(f, SubSeq(hs, 1, Len(hs) - 1)), hs[Len(hs)])

\* the arguments of history add and history edit that are never passed here
NoEntryOptions == [by |-> None, notes |-> None, cost |-> None]

\* the arguments of rules add and rules edit that are never passed here
NoRuleOptions ==
    [interval_months |-> None, severe_interval_miles |-> None,
     severe_interval_months |-> None, notes |-> None, phase |-> None,
     start_miles |-> None, stop_miles |-> None, start_months |-> None,
     stop_months |-> None, set_aftermarket |-> None]

\* the arguments of edit that are never passed here
NoCarOptions ==
    [model |-> None, year |-> None, purchase_date |-> None, purchase_miles |-> None,
     as_of_date |-> None]

\* no file yet, or a file created by add, with or without the rule, and with
\* up to MaxStored entries logged
InitCli ==
    /\ vehicle = NoVehicle
    /\ call = NoCall
    /\ \/ file = NoFile
       \/ \E with_rule \in BOOLEAN, hs \in SeqsUpTo(CliEntries, MaxStored) :
              LET created == create_vehicle(CliCar, None, None)
              IN  file = Logged(IF with_rule THEN add_rule(created, CliRule) ELSE created,
                                hs)

\* main dispatches every command but add only when the file exists
CmdLog ==
    /\ call = NoCall
    /\ file.exists
    /\ ListLen(file.data, "history") < MaxStored
    /\ \E rule_key \in {Oil \o Slash \o Replace, Tires \o Slash \o Rotate},
          mileage \in {None, Some(MaxMiles)}, dry_run \in BOOLEAN :
           LET a == [rule_key |-> rule_key, date |-> None, mileage |-> mileage]
                        @@ NoEntryOptions
               out == cmd_log(file, a, <<2024, 3, 16>>, dry_run)
           IN  /\ call' = [op |-> "cmd_log", a |-> a, dry_run |-> dry_run,
                           before |-> file, ret |-> out.ret]
               /\ file' = out.file
    /\ UNCHANGED vehicle

CmdEdit ==
    /\ call = NoCall
    /\ file.exists
    /\ \E index \in Indices, rule_key \in {None, Some(Oil \o Slash \o Replace)},
          date \in {None, Some(<<2024, 3, 16>>)}, mileage \in {None, Some(MaxMiles)},
          dry_run \in BOOLEAN :
           LET a == [rule_key |-> rule_key, date |-> date, mileage |-> mileage]
                        @@ NoEntryOptions
               out == cmd_edit(file, index, a, dry_run)
           IN  /\ call' = [op |-> "cmd_edit", index |-> index, a |-> a,
                           dry_run |-> dry_run, before |-> file, ret |-> out.ret]
               /\ file' = out.file
    /\ UNCHANGED vehicle

CmdDelete ==
    /\ call = NoCall
    /\ file.exists
    /\ \E index \in Indices, dry_run \in BOOLEAN :
           LET out == cmd_delete(file, index, dry_run)
           IN  /\ call' = [op |-> "cmd_delete", index |-> index, dry_run |-> dry_run,
                           before |-> file, ret |-> out.ret]
               /\ file' = out.file
    /\ UNCHANGED vehicle

CmdRulesAdd ==
    /\ call = NoCall
    /\ file.exists
    /\ ListLen(file.data, "rules") < MaxFileRules
    /\ \E item \in {Tires, <<>>}, interval_miles \in {None, Some(MaxMiles)},
          dry_run \in BOOLEAN :
           LET a == [item |-> item, verb |-> Rotate, interval_miles |-> interval_miles]
                        @@ NoRuleOptions
               out == cmd_rules_add(file, a, dry_run)
           IN  /\ call' = [op |-> "cmd_rules_add", a |-> a, dry_run |-> dry_run,
                           before |-> file, ret |-> out.ret]
               /\ file' = out.file
    /\ UNCHANGED vehicle

CmdEditRule ==
    /\ call = NoCall
    /\ file.exists
    /\ \E index \in Indices, verb \in {None, Some(Rotate)},
          interval_miles \in {None, Some(MaxMiles)}, dry_run \in BOOLEAN :
           LET a == [item |-> None, verb |-> verb, interval_miles |-> interval_miles]
                        @@ NoRuleOptions
               out == cmd_edit_rule(file, index, a, dry_run)
           IN  /\ call' = [op |-> "cmd_edit_rule", index |-> index, a |-> a,
                           dry_run |-> dry_run, before |-> file, ret |-> out.ret]
               /\ file' = out.file
    /\ UNCHANGED vehicle

CmdDeleteRule ==
    /\ call = NoCall
    /\ file.exists
    /\ \E index \in Indices, dry_run \in BOOLEAN :
           LET out == cmd_delete_rule(file, index, dry_run)
           IN  /\ call' = [op |-> "cmd_delete_rule", index |-> index,
                           dry_run |-> dry_run, before |-> file, ret |-> out.ret]
               /\ file' = out.file
    /\ UNCHANGED vehicle

CmdVehicleCreate ==
    /\ call = NoCall
    /\ \E car \in Cars, miles \in {None, Some(MaxMiles)}, dry_run \in BOOLEAN :
           LET a == [car |-> car, current_miles |-> miles, as_of_date |-> None]
               out == cmd_vehicle_create(file, a, dry_run)
           IN  /\ call' = [op |-> "cmd_vehicle_create", a |-> a, dry_run |-> dry_run,
                           before |-> file, ret |-> out.ret]
               /\ file' = out.file
    /\ UNCHANGED vehicle

CmdVehicleEdit ==
    /\ call = NoCall
    /\ file.exists
    /\ \E make \in {None, Some(Tires)}, trim \in {None, Some(<<>>), Some(Self)},
          miles \in {None, Some(MaxMiles)}, dry_run \in BOOLEAN :
           LET a == [make |-> make, trim |-> trim, current_miles |-> miles]
                        @@ NoCarOptions
               out == cmd_vehicle_edit(file, a, dry_run)
           IN  /\ call' = [op |-> "cmd_vehicle_edit", a |-> a, dry_run |-> dry_run,
                           before |-> file, ret |-> out.ret]
               /\ file' = out.file
    /\ UNCHANGED vehicle

CmdVehicleDelete ==
    /\ call = NoCall
    /\ file.exists
    /\ \E force \in BOOLEAN, dry_run \in BOOLEAN :
           LET out == cmd_vehicle_delete(file, force, dry_run)
           IN  /\ call' = [op |-> "cmd_vehicle_delete", force |-> force,
                           dry_run |-> dry_run, before |-> file, ret |-> out.ret]
               /\ file' = out.file
    /\ UNCHANGED vehicle

NextCli ==
    \/ CmdLog \/ CmdEdit \/ CmdDelete
    \/ CmdRulesAdd \/ CmdEditRule \/ CmdDeleteRule
    \/ CmdVehicleCreate \/ CmdVehicleEdit \/ CmdVehicleDelete
    \/ Return

SpecCli == InitCli /\ [][NextCli]_vars

----------------------------------------------------------------------------
(* Claims about calculate_service_due, checked under SpecDue *)

IsDueCall == call.op = "calculate_service_due"

\* the mileage window of the rule holds the vehicle's current mileage
InWindow ==
    /\ call.rule.start_miles <= current_miles(vehicle)
    /\ current_miles(vehicle) < call.rule.stop_miles

\* the day threshold of the call: int(due_soon_months * 30)
DueSoonDays == TruncDiv(call.due_soon_months * DaysPerMonth, Quarters)

MinOf(a, b) == IF a <= b THEN a ELSE b

\* C1: calculate_service_due returns INACTIVE exactly when current_miles lies
\* outside [rule.start_miles, rule.stop_miles), and then every other result
\* field is unset, whatever the history and the intervals are.
C1_InactiveExactlyOutsideWindow ==
    IsDueCall =>
        /\ (call.ret.status = INACTIVE) <=> ~InWindow
        /\ call.ret.status = INACTIVE =>
               /\ call.ret.last_service_miles = None
               /\ call.ret.last_service_date = None
               /\ call.ret.due_miles = None
               /\ call.ret.due_date = None
               /\ call.ret.miles_remaining = None
               /\ call.ret.time_remaining_days = None

\* an INACTIVE result at the stop boundary, for a rule with a mileage interval
\* and a vehicle whose history holds a matching entry with a mileage
C1_Witness ==
    /\ IsDueCall
    /\ call.ret.status = INACTIVE
    /\ current_miles(vehicle) = call.rule.stop_miles
    /\ call.rule.interval_miles # None
    /\ get_last_service_for_item(vehicle, call.rule.item, call.rule.verb) # None
    /\ vehicle.history[1].mileage # None

\* C2: with both a mileage due point and a date due point, the status is the
\* more urgent (lower-valued) of the mileage classification and the date
\* classification.
C2_WorseOfTwoAxes ==
    (IsDueCall /\ InWindow /\ call.ret.due_miles # None /\ call.ret.due_date # None) =>
        LET miles_status == check_status(current_miles(vehicle),
                                         call.ret.due_miles[1], call.due_soon_miles)
            date_status == check_status(ToOrdinal(call.as_of),
                                        ToOrdinal(call.ret.due_date), DueSoonDays)
        IN  /\ call.ret.status = MinOf(miles_status, date_status)
            /\ (miles_status = OK /\ date_status = OVERDUE) => call.ret.status = OVERDUE
            /\ (miles_status = OVERDUE /\ date_status = OK) => call.ret.status = OVERDUE
            /\ (miles_status = OK /\ date_status = OK) => call.ret.status = OK

\* mileage says OVERDUE, the date says OK, and the result is OVERDUE
C2_Witness ==
    /\ IsDueCall /\ InWindow
    /\ call.ret.due_miles # None /\ call.ret.due_date # None
    /\ current_miles(vehicle) >= call.ret.due_miles[1]
    /\ ToOrdinal(call.as_of) < ToOrdinal(call.ret.due_date) - DueSoonDays
    /\ call.ret.status = OVERDUE

\* C3: for an active rule the status is UNKNOWN if and only if due_miles and
\* due_date are both None; otherwise it is OVERDUE, DUE_SOON or OK.  In normal
\* mode due_miles is None exactly when the rule has no mileage interval, and
\* due_date is None exactly when it has no month interval or no last-service
\* date was found.
C3_UnknownIffNoDuePoint ==
    (IsDueCall /\ InWindow) =>
        /\ (call.ret.status = UNKNOWN) <=>
               (call.ret.due_miles = None /\ call.ret.due_date = None)
        /\ call.ret.status # UNKNOWN => call.ret.status \in {OVERDUE, DUE_SOON, OK}
        /\ ~call.severe =>
               /\ (call.ret.due_miles = None) <=> (call.rule.interval_miles = None)
               /\ (call.ret.due_date = None) <=>
                      (call.rule.interval_months = None
                           \/ call.ret.last_service_date = None)
        /\ (~call.severe /\ call.rule.interval_miles = None /\ vehicle.history = <<>>) =>
               /\ call.ret.status = UNKNOWN
               /\ call.ret.due_miles = None
               /\ call.ret.due_date = None

\* a time-only rule and a vehicle without history: UNKNOWN
C3_Witness ==
    /\ IsDueCall /\ InWindow /\ ~call.severe
    /\ call.rule.interval_miles = None
    /\ call.rule.interval_months # None
    /\ vehicle.history = <<>>
    /\ call.ret.status = UNKNOWN

\* C4: in normal mode, for an active rule with interval_miles set, due_miles is
\* M + interval_miles when the last-service entry found carries mileage M and
\* start_miles + interval_miles when no entry is found; without a mileage
\* interval due_miles is None.
C4_DueMilesNormalMode ==
    (IsDueCall /\ InWindow /\ ~call.severe) =>
        /\ (call.rule.interval_miles # None /\ call.ret.last_service_miles # None) =>
               call.ret.due_miles =
                   Some(call.ret.last_service_miles[1] + call.rule.interval_miles[1])
        /\ (call.rule.interval_miles # None /\ call.ret.last_service_date = None) =>
               call.ret.due_miles =
                   Some(call.rule.start_miles + call.rule.interval_miles[1])
        /\ call.rule.interval_miles = None => call.ret.due_miles = None

\* no entry found, a rule that starts late: due at start_miles + interval_miles
C4_Witness ==
    /\ IsDueCall /\ InWindow /\ ~call.severe
    /\ call.rule.interval_miles # None
    /\ call.rule.start_miles > 0
    /\ call.ret.last_service_date = None
    /\ call.ret.due_miles = Some(call.rule.start_miles + call.rule.interval_miles[1])

\* C6: for an active rule miles_remaining = due_miles - current_miles whenever
\* due_miles is not None, and miles_remaining is None only when due_miles is
\* None.
C6_MilesRemaining ==
    (IsDueCall /\ InWindow) =>
        /\ call.ret.due_miles # None =>
               call.ret.miles_remaining =
                   Some(call.ret.due_miles[1] - current_miles(vehicle))
        /\ call.ret.miles_remaining = None => call.ret.due_miles = None

\* C7: for an active rule time_remaining_days is the ordinal of due_date minus
\* the ordinal of the as-of date whenever due_date is not None, and None when
\* due_date is None.
C7_TimeRemainingDays ==
    (IsDueCall /\ InWindow) =>
        /\ call.ret.due_date # None =>
               call.ret.time_remaining_days =
                   Some(ToOrdinal(call.ret.due_date) - ToOrdinal(call.as_of))
        /\ call.ret.due_date = None => call.ret.time_remaining_days = None

\* the rule of the call with its severe intervals removed
WithoutSevere(rule) ==
    [rule EXCEPT !.severe_interval_miles = None, !.severe_interval_months = None]

\* the rule of the call with each severe interval that is defined put in the
\* place of the normal one
SevereAsNormal(rule) ==
    [rule EXCEPT
        !.interval_miles = IF rule.severe_interval_miles # None
                           THEN rule.severe_interval_miles ELSE @,
        !.interval_months = IF rule.severe_interval_months # None
                            THEN rule.severe_interval_months ELSE @]

\* the computed fields of a result
Computed(svc) == [svc EXCEPT !.rule = None]

\* C8: in severe mode the interval is chosen per axis, the severe one when it
\* is defined and the normal one when it is not; with severe_interval_miles
\* unset the severe-mode due_miles is the normal-mode due_miles; in normal mode
\* the severe intervals do not influence the result.
C8_SevereIntervalPerAxis ==
    IsDueCall =>
        /\ call.severe =>
               Computed(call.ret) =
                   Computed(calculate_service_due(vehicle, SevereAsNormal(call.rule),
                                call.due_soon_miles, call.due_soon_months,
                                FALSE, call.as_of))
        /\ (call.severe /\ call.rule.severe_interval_miles = None) =>
               call.ret.due_miles =
                   calculate_service_due(vehicle, call.rule, call.due_soon_miles,
                       call.due_soon_months, FALSE, call.as_of).due_miles
        /\ ~call.severe =>
               Computed(call.ret) =
                   Computed(calculate_service_due(vehicle, WithoutSevere(call.rule),
                                call.due_soon_miles, call.due_soon_months,
                                FALSE, call.as_of))

----------------------------------------------------------------------------
(* Claims about check_status, checked under SpecStatus *)

IsStatusCall == call.op = "check_status"

\* the three cases of the classification, for the numbers of the call
ThreeWay ==
    /\ call.current >= call.due => call.ret = OVERDUE
    /\ (call.due - call.soon_threshold <= call.current /\ call.current < call.due) =>
           call.ret = DUE_SOON
    /\ call.current < call.due - call.soon_threshold => call.ret = OK
    /\ Cardinality({c \in {"overdue", "due_soon", "ok"} :
           \/ c = "overdue" /\ call.current >= call.due
           \/ c = "due_soon" /\ call.due - call.soon_threshold <= call.current
                             /\ call.current < call.due
           \/ c = "ok" /\ call.current < call.due - call.soon_threshold}) = 1

\* C5 as stated: for every current, due and threshold t, check_status is
\* OVERDUE when current >= due, DUE_SOON when due - t <= current < due and OK
\* when current < due - t, the three cases being exhaustive and exclusive.
C5_ThreeWayAnyThreshold == IsStatusCall => ThreeWay

\* C5 as amended: the same for every threshold t >= 0.
C5_ThreeWayClassification == (IsStatusCall /\ call.soon_threshold >= 0) => ThreeWay

\* exactly at the due point with a positive threshold: OVERDUE
C5_Witness ==
    /\ IsStatusCall
    /\ call.soon_threshold > 0
    /\ call.current = call.due
    /\ call.ret = OVERDUE

----------------------------------------------------------------------------
(* Claims about the vehicle's lookups, checked under SpecVehicle *)

\* the mileages the history entries carry
HistoryMileages(v) ==
    {v.history[i].mileage[1] : i \in {j \in 1..Len(v.history) : v.history[j].mileage # None}}

\* C9: current_miles is the explicit state override when one is set, else the
\* maximum mileage over the history entries that carry one, else
\* car.purchase_miles.
C9_CurrentMilesPriority ==
    call.op = "current_miles" =>
        IF vehicle.state_current_miles # None
        THEN call.ret = vehicle.state_current_miles[1]
        ELSE IF HistoryMileages(vehicle) # {}
        THEN /\ call.ret \in HistoryMileages(vehicle)
             /\ \A m \in HistoryMileages(vehicle) : m <= call.ret
        ELSE call.ret = vehicle.purchase_miles

\* an override of 0 below a history mileage is what current_miles returns
C9_Witness ==
    /\ call.op = "current_miles"
    /\ vehicle.state_current_miles = Some(0)
    /\ \E m \in HistoryMileages(vehicle) : m > 0
    /\ call.ret = 0

\* a rule key with its phase stripped: the text before its second slash
StripPhase(k) ==
    LET slashes == {i \in 1..Len(k) : k[i] = "/"}
        later == {i \in slashes : \E j \in slashes : j < i}
    IN  IF later = {} THEN k
        ELSE SubSeq(k, 1, (CHOOSE i \in later : \A j \in later : i <= j) - 1)

\* C10: get_last_service_for_item(item, verb) considers exactly the entries
\* whose rule_key with the phase stripped equals item/verb: the entry returned
\* is one of them, None is returned when there is none, and the entries with
\* another base key do not change the result.
C10_LookupByBaseKey ==
    call.op = "get_last_service_for_item" =>
        LET bk == call.item \o Slash \o call.verb
            SameBase(h) == StripPhase(h.rule_key) = bk
            same == SelectSeq(vehicle.history, SameBase)
        IN  /\ (call.ret = None) <=> (same = <<>>)
            /\ call.ret # None => StripPhase(call.ret[1].rule_key) = bk
            /\ call.ret = get_last_service_for_item(
                              [vehicle EXCEPT !.history = same], call.item, call.verb)

\* the entries the lookup of the call matched, and those of them with a mileage
Matched ==
    {i \in 1..Len(vehicle.history) :
        StartsWith(vehicle.history[i].rule_key, call.item \o Slash \o call.verb)}

MatchedWithMileage == {i \in Matched : vehicle.history[i].mileage # None}

\* entry a is not later than entry b by (date, mileage); both carry a mileage
PairAtMost(a, b) ==
    \/ ToOrdinal(a.date) < ToOrdinal(b.date)
    \/ a.date = b.date /\ a.mileage[1] <= b.mileage[1]

\* C11: among the matching entries get_last_service_for_item returns one with
\* the greatest (date, mileage) pair over those that carry a mileage, even when
\* a later-dated matching entry without mileage exists; only when no matching
\* entry carries a mileage does it return one with the greatest date among all
\* matches.
C11_PrefersMileageThenLatest ==
    call.op = "get_last_service_for_item" =>
        IF MatchedWithMileage # {}
        THEN /\ call.ret # None
             /\ \E i \in MatchedWithMileage : vehicle.history[i] = call.ret[1]
             /\ \A i \in MatchedWithMileage : PairAtMost(vehicle.history[i], call.ret[1])
        ELSE IF Matched # {}
        THEN /\ call.ret # None
             /\ \E i \in Matched : vehicle.history[i] = call.ret[1]
             /\ \A i \in Matched :
                    ToOrdinal(vehicle.history[i].date) <= ToOrdinal(call.ret[1].date)
        ELSE call.ret = None

\* a matching entry without mileage is dated after the entry returned, which
\* carries a mileage
C11_Witness ==
    /\ call.op = "get_last_service_for_item"
    /\ call.ret # None
    /\ call.ret[1].mileage # None
    /\ \E i \in Matched :
           /\ vehicle.history[i].mileage = None
           /\ ToOrdinal(vehicle.history[i].date) > ToOrdinal(call.ret[1].date)

----------------------------------------------------------------------------
(* Claims about get_all_service_status, checked under SpecAll *)

IsAllCall == call.op = "get_all_service_status"

\* the history entries whose base key (item/verb) is the base key of no rule
Dangling(v) ==
    {k \in 1..Len(v.history) :
        \A i \in 1..Len(v.rules) :
            base_key(v.rules[i]) # StripPhase(v.history[k].rule_key)}

\* the vehicle without its k-th history entry
WithoutEntry(v, k) ==
    [v EXCEPT !.history = SubSeq(v.history, 1, k - 1)
                              \o SubSeq(v.history, k + 1, Len(v.history))]

\* C12: a history entry whose rule_key shares its base key (item/verb) with no
\* rule of the vehicle is invisible to status calculation: get_all_service_status
\* returns the same results with that entry in the history as without it.
C12_DanglingEntryInvisible ==
    IsAllCall =>
        \A k \in Dangling(vehicle) :
            call.ret = get_all_service_status(WithoutEntry(vehicle, k),
                           call.due_soon_miles, call.due_soon_months,
                           call.severe, call.as_of)

----------------------------------------------------------------------------
(* Claims about Rule, checked under SpecRule *)

\* C13: a rule created with start_miles s and stop_miles t is active at
\* mileage m exactly when s <= m < t: active at m = s when s < t, inactive at
\* m = t, and inactive at every mileage when s > t.
C13_ActiveExactlyInWindow ==
    (call.op = "is_active_at" /\ call.start_miles # None /\ call.stop_miles # None) =>
        LET s == call.start_miles[1]
            t == call.stop_miles[1]
            m == call.miles
        IN  /\ call.ret <=> (s <= m /\ m < t)
            /\ (m = s /\ s < t) => call.ret
            /\ m = t => ~call.ret
            /\ s > t => ~call.ret

\* a sequence in the opposite order
Reverse(q) == [i \in 1..Len(q) |-> q[Len(q) + 1 - i]]

KeptRules(rules, exclude) ==
    LET Kept(rule) ==
            \A j \in 1..Len(exclude) : LowerCase(rule.verb) # LowerCase(exclude[j])
    IN  SelectSeq(rules, Kept)

\* the clock readings that belong to the rules kept
KeptReadings(rules, exclude, readings) ==
    LET idx == {i \in 1..Len(rules) : KeptRules(<<rules[i]>>, exclude) # <<>>}
        Nth(n) == CHOOSE i \in idx : Cardinality({j \in idx : j <= i}) = n
    IN  [n \in 1..Cardinality(idx) |-> readings[Nth(n)]]

\* C15: get_all_service_status accepts exclude_verbs and then returns, in
\* rule-list order, the results for exactly those rules whose verb, compared
\* case-insensitively, is not in exclude_verbs; with exclude_verbs absent no
\* rule is skipped.
C15_ExcludeVerbs ==
    call.op = "get_all_service_status_excluding" =>
        LET exclude == IF call.exclude_verbs = None THEN <<>> ELSE call.exclude_verbs[1]
        IN  call.ret =
                get_all_service_status(
                    [vehicle EXCEPT !.rules = KeptRules(vehicle.rules, exclude)],
                    call.due_soon_miles, call.due_soon_months, call.severe,
                    KeptReadings(vehicle.rules, exclude, call.as_of))

----------------------------------------------------------------------------
(* Claims about calc_due_date, checked under SpecDate *)

\* round(n / d) of Python for n >= 0: a tie goes to the even neighbour
RoundHalfEven(n, d) ==
    LET q == n \div d
        r == n % d
    IN  IF 2 * r < d THEN q
        ELSE IF 2 * r > d THEN q + 1
        ELSE IF q % 2 = 0 THEN q ELSE q + 1

\* C16: with a last-service date and a month interval, the due date is the
\* last-service date plus floor(interval_months) calendar months plus
\* round((interval_months - floor(interval_months)) * 30) days, for every
\* fractional interval; 2025-01-15 plus 7.5 months is 2025-08-30.
C16_DueDateRoundsDays ==
    (call.op = "calc_due_date" /\ call.last_date # None /\ call.interval_months # None) =>
        LET whole == call.interval_months[1] \div Quarters
            fraction == call.interval_months[1] % Quarters
        IN  /\ call.ret =
                   AddRelativeDelta(call.last_date, whole,
                       RoundHalfEven(fraction * DaysPerMonth, Quarters))
            /\ (call.last_date = <<2025, 1, 15>> /\ call.interval_months = Some(30)) =>
                   call.ret = <<2025, 8, 30>>

\* the result of the call in progress is the same for every reading of the
\* clock
SameForEveryClock ==
    /\ IsAllCall =>
           \A todays \in Clocks(Len(vehicle.rules)) :
               call.ret = get_all_service_status(vehicle, call.due_soon_miles,
                              call.due_soon_months, call.severe, todays)
    /\ IsDueCall =>
           \A today \in ClockDates :
               call.ret = calculate_service_due(vehicle, call.rule,
                              call.due_soon_miles, call.due_soon_months,
                              call.severe, today)

\* C17: calculate_service_due and get_all_service_status have no observable
\* side effect: every call leaves the vehicle's car, rule list, history list
\* (content and order) and explicit state unchanged, and with an explicit
\* as-of date two calls with the same arguments return equal results, whatever
\* the clock reads.
C17_NoSideEffect ==
    /\ [][vehicle' = vehicle]_vars
    /\ [](vehicle.state_as_of_date # None => SameForEveryClock)

\* a status list was computed from a stored as-of date, a history and two
\* rules, and one of the results depends on the date
C17_Witness ==
    /\ IsAllCall
    /\ vehicle.state_as_of_date # None
    /\ Len(vehicle.history) = MaxAllHistory
    /\ Len(call.ret) = 2
    /\ \E i \in 1..2 : call.ret[i].due_date # None

----------------------------------------------------------------------------
(* Claims about get_history_sorted, checked under SpecHistory *)

\* how often entry e occurs in the sequence q
Occurrences(q, e) == Cardinality({i \in 1..Len(q) : q[i] = e})

\* entry a does not come after entry b in the order named by sort_by
KeyAtMost(a, b, sort_by) ==
    IF sort_by = "date" THEN ToOrdinal(a.date) <= ToOrdinal(b.date)
    ELSE IF sort_by = "miles"
    THEN (IF a.mileage = None THEN 0 ELSE a.mileage[1])
             <= (IF b.mileage = None THEN 0 ELSE b.mileage[1])
    ELSE \/ StrLess(a.rule_key, b.rule_key)
         \/ a.rule_key = b.rule_key /\ ToOrdinal(a.date) <= ToOrdinal(b.date)

\* C18: for sort_by in {date, miles, rule}, get_history_sorted returns a
\* permutation of the history ordered by date, by mileage with a missing
\* mileage counted as 0, or by (rule_key, date), non-increasing when reverse is
\* true and non-decreasing when it is false, and it leaves the order of the
\* vehicle's stored history unchanged.
C18_SortedPermutation ==
    (call.op = "get_history_sorted" /\ call.sort_by \in {"date", "miles", "rule"}) =>
        /\ Len(call.ret) = Len(vehicle.history)
        /\ \A i \in 1..Len(vehicle.history) :
               Occurrences(call.ret, vehicle.history[i])
                   = Occurrences(vehicle.history, vehicle.history[i])
        /\ \A i, j \in 1..Len(call.ret) :
               i < j => IF call.reverse
                        THEN KeyAtMost(call.ret[j], call.ret[i], call.sort_by)
                        ELSE KeyAtMost(call.ret[i], call.ret[j], call.sort_by)
        /\ vehicle.history = call.before

\* three entries listed by mileage, highest first, in another order than the
\* stored one, with an entry without mileage last
C18_Witness ==
    /\ call.op = "get_history_sorted"
    /\ call.sort_by = "miles" /\ call.reverse
    /\ Len(call.ret) = 3
    /\ call.ret # vehicle.history
    /\ call.ret[1].mileage = Some(1)
    /\ call.ret[3].mileage = None

----------------------------------------------------------------------------
(* Claims about ServiceDue, checked under SpecServiceDue *)

\* C19: ServiceDue.is_due is true exactly when status is OVERDUE or DUE_SOON;
\* a result with status OK, INACTIVE or UNKNOWN is never reported as due.
C19_IsDueIffOverdueOrDueSoon ==
    call.op = "is_due" =>
        /\ call.svc.status = OVERDUE => call.ret = TRUE
        /\ call.svc.status = DUE_SOON => call.ret = TRUE
        /\ call.svc.status = OK => call.ret = FALSE
        /\ call.svc.status = INACTIVE => call.ret = FALSE
        /\ call.svc.status = UNKNOWN => call.ret = FALSE

\* a DUE_SOON result with miles remaining is reported as due
C19_Witness ==
    /\ call.op = "is_due"
    /\ call.svc.status = DUE_SOON
    /\ call.svc.miles_remaining = Some(1)
    /\ call.ret = TRUE

----------------------------------------------------------------------------
(* Claims about the loader, checked under SpecFile *)

\* the elements of the list under key k, none when the section is absent or
\* null
ItemsOf(data, k) == IF HasValue(data, k) THEN data[k].items ELSE <<>>

\* the document after the call equals the one before it outside section k
OtherSectionsKept(k) ==
    /\ DOMAIN file.data = DOMAIN call.before.data \cup {k}
    /\ \A x \in DOMAIN call.before.data \ {k} : file.data[x] = call.before.data[x]

\* the list under k after the call is the list before it plus one element
OneAppended(k) ==
    /\ HasValue(file.data, k)
    /\ file.data[k].yaml = "list"
    /\ Len(file.data[k].items) = Len(ItemsOf(call.before.data, k)) + 1
    /\ SubSeq(file.data[k].items, 1, Len(ItemsOf(call.before.data, k)))
           = ItemsOf(call.before.data, k)

\* the mapping dct holds value v under key k when v is set and has no key k
\* when it is not
Carries(dct, k, v) == IF v = None THEN k \notin DOMAIN dct ELSE dct[k] = v[1]

\* C20: save_history_entry and add_rule each append exactly one element: the
\* stored list afterwards is the list before followed by the new element
\* carrying the given entry's (rule's) fields, a one-element list if the section
\* was absent, and every existing element and every other section of the file
\* is unchanged.
C20_AppendExactlyOne ==
    /\ call.op = "save_history_entry" =>
           LET new == file.data["history"].items[Len(file.data["history"].items)]
           IN  /\ OneAppended("history")
               /\ OtherSectionsKept("history")
               /\ new["ruleKey"] = call.entry.rule_key
               /\ new["date"] = call.entry.date
               /\ Carries(new, "mileage", call.entry.mileage)
               /\ Carries(new, "performedBy", call.entry.performed_by)
               /\ Carries(new, "notes", call.entry.notes)
               /\ Carries(new, "cost", call.entry.cost)
               /\ ParseEntry(new) = call.entry
    /\ call.op = "add_rule" =>
           LET new == file.data["rules"].items[Len(file.data["rules"].items)]
           IN  /\ OneAppended("rules")
               /\ OtherSectionsKept("rules")
               /\ new["item"] = call.rule.item
               /\ new["verb"] = call.rule.verb
               /\ Carries(new, "intervalMiles", call.rule.interval_miles)
               /\ Carries(new, "intervalMonths", call.rule.interval_months)
               /\ Carries(new, "severeIntervalMiles", call.rule.severe_interval_miles)
               /\ Carries(new, "severeIntervalMonths", call.rule.severe_interval_months)
               /\ Carries(new, "notes", call.rule.notes)
               /\ ParseRule(new) = call.rule

\* an entry with every field set was appended to a file whose history section
\* was absent, next to a rules and a state section
C20_Witness ==
    /\ call.op = "save_history_entry"
    /\ "history" \notin DOMAIN call.before.data
    /\ {"state", "rules"} \subseteq DOMAIN file.data
    /\ call.entry.cost # None
    /\ Len(file.data["history"].items) = 1

----------------------------------------------------------------------------
(* Claims about the indexed loader calls, checked under SpecEdit *)

\* the section the call works on
SectionOf(op) ==
    IF op \in {"update_history_entry", "delete_history_entry"} THEN "history"
    ELSE "rules"

IsIndexedCall ==
    call.op \in {"update_history_entry", "update_rule", "delete_history_entry",
                 "delete_rule"}

\* the index of the call addresses an element of the list stored before it
ValidIndex ==
    /\ call.index >= 0
    /\ call.index < Len(ItemsOf(call.before.data, SectionOf(call.op)))

\* the list under k after the call has the length it had before, holds x at
\* the position the call named and the same element at every other position
OneReplaced(k, x) ==
    LET old == ItemsOf(call.before.data, k)
        new == ItemsOf(file.data, k)
    IN  /\ HasValue(file.data, k)
        /\ file.data[k].yaml = "list"
        /\ Len(new) = Len(old)
        /\ new[call.index + 1] = x
        /\ \A i \in 1..Len(old) : i # call.index + 1 => new[i] = old[i]

\* C21: update_history_entry and update_rule with a valid index i replace
\* exactly the element at position i by the given entry (rule): the list length
\* is unchanged, every element at another position keeps its content and
\* position, and the other sections of the file are unchanged.
C21_ReplaceExactlyOne ==
    /\ call.op = "update_history_entry" /\ ValidIndex =>
           /\ call.ret = Returned
           /\ OneReplaced("history", EntryDict(call.entry))
           /\ ParseEntry(file.data["history"].items[call.index + 1]) = call.entry
           /\ OtherSectionsKept("history")
    /\ call.op = "update_rule" /\ ValidIndex =>
           /\ call.ret = Returned
           /\ OneReplaced("rules", rule_to_dict(call.rule))
           /\ ParseRule(file.data["rules"].items[call.index + 1]) = call.rule
           /\ OtherSectionsKept("rules")

\* the first of two stored entries was replaced by a different entry, next to
\* stored rules
C21_Witness ==
    /\ call.op = "update_history_entry"
    /\ call.index = 0
    /\ Len(ItemsOf(call.before.data, "history")) = 2
    /\ ItemsOf(call.before.data, "history")[1] # EntryDict(call.entry)
    /\ ItemsOf(call.before.data, "history")[2] # EntryDict(call.entry)
    /\ Len(ItemsOf(file.data, "rules")) > 0
    /\ call.ret = Returned

\* the list under k after the call is the list before it without the position
\* the call named
OneDeleted(k) ==
    LET old == ItemsOf(call.before.data, k)
        new == ItemsOf(file.data, k)
    IN  /\ HasValue(file.data, k)
        /\ file.data[k].yaml = "list"
        /\ Len(new) = Len(old) - 1
        /\ \A i \in 1..Len(new) :
               new[i] = IF i <= call.index THEN old[i] ELSE old[i + 1]

\* C22: delete_history_entry and delete_rule with a valid index i remove
\* exactly the element at position i: the resulting list is the previous list
\* without that position, the remaining elements keep their relative order, and
\* the other sections are unchanged (deleting a rule leaves the history entries
\* saved under its key in place).
C22_DeleteExactlyOne ==
    /\ call.op = "delete_history_entry" /\ ValidIndex =>
           /\ call.ret = Returned
           /\ OneDeleted("history")
           /\ OtherSectionsKept("history")
    /\ call.op = "delete_rule" /\ ValidIndex =>
           /\ call.ret = Returned
           /\ OneDeleted("rules")
           /\ OtherSectionsKept("rules")
           /\ ItemsOf(file.data, "history") = ItemsOf(call.before.data, "history")

\* the first of two different rules was deleted while the history holds an
\* entry saved under its key
C22_Witness ==
    /\ call.op = "delete_rule"
    /\ call.index = 0
    /\ Len(ItemsOf(call.before.data, "rules")) = 2
    /\ ItemsOf(call.before.data, "rules")[1] # ItemsOf(call.before.data, "rules")[2]
    /\ \E i \in 1..Len(ItemsOf(file.data, "history")) :
           ItemsOf(file.data, "history")[i]["ruleKey"]
               = key(ParseRule(ItemsOf(call.before.data, "rules")[1]))
    /\ call.ret = Returned

\* C23: update_history_entry, delete_history_entry, update_rule and delete_rule
\* called with an index that is negative or not less than the length of the
\* list (including a missing or empty list) raise IndexError and leave the
\* vehicle file exactly as it was.
C23_InvalidIndexRaises ==
    IsIndexedCall /\ ~ValidIndex =>
        /\ call.ret = IndexError
        /\ file = call.before

\* a negative index was handed to delete_history_entry on a file that holds
\* history
C23_Witness ==
    /\ call.op = "delete_history_entry"
    /\ call.index = -1
    /\ Len(ItemsOf(call.before.data, "history")) = 2
    /\ call.ret = IndexError

----------------------------------------------------------------------------
(* Claims about the vehicle-file calls, checked under SpecMeta *)

\* the fields of the state section, none when the section is absent or null
StateOf(f) == IF HasValue(f.data, "state") THEN f.data["state"].fields ELSE <<>>

\* the field k of the state section of file f, as an Optional
StateField(f, k) == Get(StateOf(f), k)

\* section k is the same in f and g: absent in both or equal
SameSection(f, g, k) ==
    /\ k \in DOMAIN f.data <=> k \in DOMAIN g.data
    /\ k \in DOMAIN f.data => f.data[k] = g.data[k]

\* C24: update_vehicle_meta changes only what it is given: the car section is
\* replaced only when a car is passed, state.currentMiles only when
\* current_miles is passed, state.asOfDate only when as_of_date is passed;
\* rules, history and every state field not passed are left unchanged.
C24_MetaChangesOnlyGiven ==
    call.op = "update_vehicle_meta" =>
        /\ file.data["car"] = IF call.car # None THEN YMap(car_to_dict(call.car[1]))
                              ELSE call.before.data["car"]
        /\ StateField(file, "currentMiles")
               = IF call.miles # None THEN call.miles
                 ELSE StateField(call.before, "currentMiles")
        /\ StateField(file, "asOfDate")
               = IF call.as_of # None THEN Some(call.as_of)
                 ELSE StateField(call.before, "asOfDate")
        /\ \A k \in (DOMAIN StateOf(file) \cup DOMAIN StateOf(call.before))
                        \ {"currentMiles", "asOfDate"} :
               StateField(file, k) = StateField(call.before, k)
        /\ call.miles = None /\ call.as_of = None => SameSection(file, call.before, "state")
        /\ \A k \in (DOMAIN file.data \cup DOMAIN call.before.data) \ {"car", "state"} :
               SameSection(file, call.before, k)

\* only a mileage was passed, for a file that stores another mileage, an as-of
\* date and history
C24_Witness ==
    /\ call.op = "update_vehicle_meta"
    /\ call.car = None
    /\ call.as_of = None
    /\ call.miles = Some(2)
    /\ StateField(call.before, "currentMiles") = Some(1)
    /\ StateField(file, "asOfDate") # None
    /\ Len(ItemsOf(file.data, "history")) > 0

\* the explicit currentMiles the file stores, as an Optional
StoredMiles(f) == IF f.exists THEN StateField(f, "currentMiles") ELSE None

\* the mileages carried by the history entries the file stores
HistoryMiles(f) ==
    {ItemsOf(f.data, "history")[i]["mileage"] :
        i \in {j \in 1..Len(ItemsOf(f.data, "history")) :
                  "mileage" \in DOMAIN ItemsOf(f.data, "history")[j]}}

\* the call c stores the explicit mileage c.miles
StoresMiles(c) ==
    \/ c.op = "save_current_miles"
    \/ c.op \in {"update_vehicle_meta", "create_vehicle"} /\ c.miles # None

\* a load of the file reports the explicit mileage it stores, and the history
\* maximum (else the purchase mileage) only when it stores none
LoadReportsStored ==
    call.op = "load_vehicle" =>
        LET m == current_miles(call.ret)
        IN  IF StoredMiles(file) # None THEN m = StoredMiles(file)[1]
            ELSE IF HistoryMiles(file) # {}
            THEN m \in HistoryMiles(file) /\ \A x \in HistoryMiles(file) : x <= m
            ELSE m = file.data["car"].fields["purchaseMiles"]

\* C26: once an explicit currentMiles has been stored (by save_current_miles,
\* update_vehicle_meta or create_vehicle), every later load of the file reports
\* current_miles equal to the most recently stored explicit value, whatever
\* mileages the history entries appended, replaced or removed afterwards carry;
\* the history maximum is used only while no explicit value has been stored.
\* Stated as: a storing call leaves exactly its value in the file, a call on
\* the history, a load or a call that passes no mileage keeps the stored value,
\* and every load reports the stored value.
C26_ExplicitMilesWin ==
    /\ [][/\ StoresMiles(call') => StoredMiles(file') = call'.miles
          /\ (call'.op = "create_vehicle" /\ call'.miles = None) =>
                 StoredMiles(file') = IF call'.as_of = None
                                      THEN Some(call'.car.purchase_miles) ELSE None
          /\ (/\ call'.op \notin {"create_vehicle", "delete_vehicle"}
              /\ ~StoresMiles(call')
              /\ StoredMiles(file) # None) =>
                 StoredMiles(file') = StoredMiles(file)]_vars
    /\ [](LoadReportsStored)

\* a load of a file that stores the explicit mileage 0 next to a history entry
\* with mileage 2 reports 0
C26_Witness ==
    /\ call.op = "load_vehicle"
    /\ StoredMiles(file) = Some(0)
    /\ 2 \in HistoryMiles(file)
    /\ current_miles(call.ret) = 0

----------------------------------------------------------------------------
(* Claims about logging a service, checked under SpecLog *)

\* date a is strictly earlier than date b
DateBefore(a, b) == ToOrdinal(a) < ToOrdinal(b)

\* the entry stored last in the file: the one save_history_entry appended
LastLogged == ParseEntry(ItemsOf(file.data, "history")[Len(ItemsOf(file.data, "history"))])

\* the last stored entry was saved under the rule's key with a mileage, and its
\* date is strictly later than that of every other stored entry of the rule's
\* item/verb
LoggedLatestFor(rule) ==
    LET items == ItemsOf(file.data, "history")
    IN  /\ Len(items) > 0
        /\ LastLogged.rule_key = key(rule)
        /\ LastLogged.mileage # None
        /\ \A i \in 1..(Len(items) - 1) :
               StripPhase(items[i]["ruleKey"]) = base_key(rule) =>
                   DateBefore(items[i]["date"], LastLogged.date)

\* C25: logging a service resets the mileage clock: after save_history_entry
\* appends an entry saved under R.key with mileage m and a date strictly later
\* than every other entry matching R's item/verb, calculate_service_due(R) on
\* the reloaded vehicle (R active, interval_miles set, normal mode) reports
\* last_service_miles = m and due_miles = m + R.interval_miles, whatever the
\* earlier history was.
C25_LogResetsMileageClock ==
    (/\ call.op = "calculate_service_due"
     /\ vehicle = load_vehicle(file)
     /\ ~call.severe
     /\ call.rule.interval_miles # None
     /\ is_active_at(call.rule, current_miles(vehicle))
     /\ LoggedLatestFor(call.rule)) =>
        /\ call.ret.last_service_miles = LastLogged.mileage
        /\ call.ret.due_miles
               = Some(LastLogged.mileage[1] + call.rule.interval_miles[1])

----------------------------------------------------------------------------
(* Claims about the history listing, checked under SpecListing *)

\* a listing with indices was shown: by the command line with --show-index,
\* when it completed, or by the web page
IsListing ==
    \/ call.op = "cmd_history" /\ call.show_index /\ call.ret = Exit(0)
    \/ call.op = "vehicle_history"

\* the entry e passes the filters of the listing: the text and the date of
\* the command line, the verbs ticked on the web page
PassesFilters(e) ==
    IF call.op = "cmd_history"
    THEN /\ call.rule = None
            \/ Contains(LowerCase(e.rule_key), LowerCase(call.rule[1]))
         /\ call.since = None \/ ToOrdinal(e.date) >= ToOrdinal(call.since[1])
    ELSE \/ call.include_verbs = {}
         \/ \E x \in call.include_verbs, n \in 1..Len(e.rule_key) :
                /\ e.rule_key[n] = "/"
                /\ \A j \in 1..(n - 1) : e.rule_key[j] # "/"
                /\ LowerCase(x) = LowerCase(SubSeq(StripPhase(e.rule_key), n + 1,
                                                  Len(StripPhase(e.rule_key))))

\* C28: in the history listing with --show-index (and in the web history
\* page), for every sort key, sort direction and filter combination, the index
\* shown beside an entry is that entry's position in the stored history list,
\* so `history edit <index>` or `history delete <index>` on the unchanged file
\* addresses exactly the displayed entry: each row shows a position of the
\* stored list and the entry stored there, no position is shown twice, the
\* positions shown are those whose entry passes the filters, the entry history
\* edit and history delete read at a shown index is the displayed one, and
\* history delete with a shown index never rejects the index and, when it
\* completes, has removed that position.
C28_ShownIndexIsStoredPosition ==
    IsListing =>
        LET stored == ItemsOf(file.data, "history")
            shown == {call.rows[r].index[1] : r \in 1..Len(call.rows)}
        IN  /\ \A r \in 1..Len(call.rows) :
                   LET i == call.rows[r].index[1]
                   IN  /\ i \in 0..(Len(stored) - 1)
                       /\ ParseEntry(stored[i + 1]) = call.rows[r].entry
                       /\ load_vehicle(file).history[i + 1] = call.rows[r].entry
                       /\ cmd_delete(file, i, FALSE).ret \in {Exit(0), AttributeError}
                       /\ cmd_delete(file, i, FALSE).ret = Exit(0) =>
                              ItemsOf(cmd_delete(file, i, FALSE).file.data, "history")
                                  = SubSeq(stored, 1, i) \o SubSeq(stored, i + 2, Len(stored))
            /\ Cardinality(shown) = Len(call.rows)
            /\ shown = {i \in 0..(Len(stored) - 1) : PassesFilters(ParseEntry(stored[i + 1]))}

\* a listing sorted by mileage, highest first, of three stored entries of which
\* the first and the last are equal: the rows are not in stored order, and
\* history delete with the index of the first row completes
C28_Witness ==
    /\ cmd_delete(file, 1, FALSE).ret = Exit(0)
    /\ call.op = "cmd_history"
    /\ call.show_index
    /\ call.sort = "miles"
    /\ ~call.asc
    /\ Len(call.rows) = 3
    /\ ItemsOf(file.data, "history")[1] = ItemsOf(file.data, "history")[3]
    /\ call.rows[1].index = Some(1)
    /\ call.rows[2].index = Some(0)
    /\ call.rows[3].index = Some(2)

----------------------------------------------------------------------------
(* Claims about the mutating commands, checked under SpecCli *)

\* the entry history edit is to write: the stored one, with the fields passed
\* on the command line put in their places
EditedEntry(before, index, a) ==
    LET existing == load_vehicle(before).history[index + 1]
    IN  HistoryEntry(IF a.rule_key = None THEN existing.rule_key
                     ELSE key(RuleNoCase(load_vehicle(before), a.rule_key[1])[1]),
                     Override(a.date, existing.date),
                     OverrideOptional(a.mileage, existing.mileage),
                     OverrideOptional(a.by, existing.performed_by),
                     OverrideOptional(a.notes, existing.notes),
                     OverrideOptional(a.cost, existing.cost))

\* C27: the `history edit` command on a valid index writes back an entry that
\* differs from the stored one only in the fields explicitly passed on the
\* command line; when --rule-key is not passed the entry keeps its existing
\* rule_key, including when that key matches no current rule (a dangling
\* key): a history edit without --dry-run, on a valid index and with no
\* --rule-key or the key of a rule, exits with 0 and leaves the file with that
\* one entry replaced by the stored entry with the passed fields overridden.
C27_EditChangesOnlyPassed ==
    (/\ call.op = "cmd_edit"
     /\ ~call.dry_run
     /\ call.index \in 0..(ListLen(call.before.data, "history") - 1)
     /\ \/ call.a.rule_key = None
        \/ RuleNoCase(load_vehicle(call.before), call.a.rule_key[1]) # None)
    => /\ call.ret = Exit(0)
       /\ file = ReplaceInFile(call.before, "history", call.index,
                               EntryDict(EditedEntry(call.before, call.index, call.a))).file

\* the commands that write: history add/edit/delete, rules add/edit/delete,
\* vehicle add/edit/delete
MutatingCommands ==
    {"cmd_log", "cmd_edit", "cmd_delete", "cmd_rules_add", "cmd_edit_rule",
     "cmd_delete_rule", "cmd_vehicle_create", "cmd_vehicle_edit", "cmd_vehicle_delete"}

\* C29: with --dry-run, every mutating CLI command (history add/edit/delete,
\* rules add/edit/delete, vehicle add/edit/delete) makes no change: the vehicle
\* file is neither created, rewritten nor removed, whatever the other
\* arguments are.
C29_DryRunChangesNothing ==
    (call.op \in MutatingCommands /\ call.dry_run) => file = call.before

\* a dry run of delete --force that completed on a file the command would
\* have removed
C29_Witness ==
    /\ call.op = "cmd_vehicle_delete"
    /\ call.dry_run
    /\ call.force
    /\ call.ret = Exit(0)
    /\ file.exists
    /\ ~cmd_vehicle_delete(file, TRUE, FALSE).file.exists

----------------------------------------------------------------------------
(* Claim about the order of statuses over mileage and time, checked under   *)
(* SpecUrgency                                                              *)

\* a loaded vehicle with at most one history entry, then calls of
\* calculate_service_due
InitUrgency ==
    /\ \E h \in {<<>>} \cup {<<e>> : e \in DueEntries},
          a \in {None} \cup AsOfDates, c \in OptMiles :
           vehicle = Vehicle(0, <<>>, h, a, c)
    /\ call = NoCall
    /\ file = NoFile

SpecUrgency == InitUrgency /\ [][NextDue]_vars

\* the dates the as-of date advances to
LaterDates == AsOfDates \cup ClockDates \cup {<<2024, 4, 15>>}

\* the result of the call, had the odometer read m
AtMiles(m) ==
    calculate_service_due([vehicle EXCEPT !.state_current_miles = Some(m)],
                          call.rule, call.due_soon_miles, call.due_soon_months,
                          call.severe, call.as_of)

\* the result of the call, had the as-of date been d
AtDate(d) ==
    calculate_service_due([vehicle EXCEPT !.state_as_of_date = d],
                          call.rule, call.due_soon_miles, call.due_soon_months,
                          call.severe, d)

\* OVERDUE is more urgent than DUE_SOON, DUE_SOON than OK; UNKNOWN and
\* INACTIVE are beside the order
AtLeastAsUrgent(later, earlier) ==
    IF earlier \in {OVERDUE, DUE_SOON, OK}
    THEN later \in {OVERDUE, DUE_SOON, OK} /\ later <= earlier
    ELSE later = earlier

\* C30: urgency is monotone: for a fixed rule, history, severe flag and
\* non-negative thresholds, if current_miles rises from m1 to m2 with the rule
\* active at both (as-of date fixed), or the as-of date advances with the
\* mileage fixed, the status at the later point is at least as urgent as at
\* the earlier one (OK may become DUE_SOON or OVERDUE, never the reverse;
\* UNKNOWN stays UNKNOWN).
C30_UrgencyMonotone ==
    call.op = "calculate_service_due" =>
        /\ \A m \in Miles :
               (/\ m >= current_miles(vehicle)
                /\ is_active_at(call.rule, current_miles(vehicle))
                /\ is_active_at(call.rule, m))
               => AtLeastAsUrgent(AtMiles(m).status, call.ret.status)
        /\ \A d \in LaterDates :
               ~TupleLess(d, call.as_of)
               => AtLeastAsUrgent(AtDate(d).status, call.ret.status)

\* a call answering OK on both axes, with a higher mileage at which it would
\* answer DUE_SOON, one at which it would answer OVERDUE, and later dates at
\* which it would answer DUE_SOON and OVERDUE
C30_Witness ==
    /\ call.op = "calculate_service_due"
    /\ call.ret.status = OK
    /\ call.ret.due_miles # None
    /\ call.ret.due_date # None
    /\ \E m \in Miles : /\ m > current_miles(vehicle)
                        /\ is_active_at(call.rule, m)
                        /\ AtMiles(m).status = DUE_SOON
    /\ \E m \in Miles : /\ m > current_miles(vehicle)
                        /\ is_active_at(call.rule, m)
                        /\ AtMiles(m).status = OVERDUE
    /\ \E d \in LaterDates : TupleLess(call.as_of, d) /\ AtDate(d).status = DUE_SOON
    /\ \E d \in LaterDates : TupleLess(call.as_of, d) /\ AtDate(d).status = OVERDUE

====
